---- MODULE Spec2Model ----
(***************************************************************************)
(* iirdsp: Butterworth / notch design into a cascade of second-order       *)
(* sections (butter.c, notch.c) and the cascade's execution engine         *)
(* (sos.h, sos.c).                                                         *)
(*                                                                         *)
(* iirdsp_real (config.h: float or double, chosen at compile time) is      *)
(* modelled as a binary floating-point number [m, e] of value m * 2^e      *)
(* with a Precision-bit significand, round-to-nearest-even and an          *)
(* unbounded exponent.  Zero is [m |-> 0, e |-> 0]; the result of a        *)
(* division by zero is NaN, which every operation propagates and every     *)
(* comparison answers FALSE on.                                            *)
(***************************************************************************)
EXTENDS Integers, Sequences, FiniteSets, TLC

\* ------------------------------------------------------------------ bounds
\* Bits of the significand of iirdsp_real in the model (24 / 53 in the code).
Precision == 14
\* Longest sample buffer handed to process_buffer / filtfilt.
MaxLen == 3
\* Number of API calls in one behaviour.
MaxOps == 3
\* Longest buffer holding a single non-zero sample.
ImpulseLen == 5
\* Length of the buffers of the calls that an interrupt preempts.
PreemptLen == 2

\* --------------------------------------------------------- program constants
IIRDSP_MAX_SECTIONS == 8

\* ------------------------------------------------------- local variables
Only(S) == CHOOSE only \in S : TRUE

\* Only({e : v \in {val}}) is e for the local variable v of a C function: val
\* is computed once, then e with it.

\* ------------------------------------------------------- iirdsp_real numbers
Pow2(k) == 2 ^ k

Abs(n) == IF n < 0 THEN -n ELSE n

Sgn(n) == IF n < 0 THEN -1 ELSE IF n = 0 THEN 0 ELSE 1

Zero == [m |-> 0, e |-> 0]

NaN == [m |-> 0, e |-> 1]

IsNaN(a) == a.m = 0 /\ a.e # 0

BitLen4(n) ==
    IF n < 4 THEN (IF n < 2 THEN n ELSE 2) ELSE (IF n < 8 THEN 3 ELSE 4)

BitLen8(n) == IF n < 16 THEN BitLen4(n) ELSE 4 + BitLen4(n \div 16)

BitLen16(n) == IF n < 256 THEN BitLen8(n) ELSE 8 + BitLen8(n \div 256)

\* Number of bits of n >= 0 (n < 2^31).
BitLen(n) == IF n < 65536 THEN BitLen16(n) ELSE 16 + BitLen16(n \div 65536)

\* The quotient q of a division with remainder r, rounded to nearest, ties
\* to even; half is half the divisor.
RoundQuotient(q, r, half) ==
    IF r > half \/ (r = half /\ q % 2 = 1) THEN q + 1 ELSE q

\* n >= 0 shifted right by s >= 1 bits, rounded to nearest, ties to even.
RoundShift(n, s) == RoundQuotient(n \div Pow2(s), n % Pow2(s), Pow2(s - 1))

\* sign * n * 2^e, where n has bl > Precision bits, rounded.
NormDown(sign, n, e, s) ==
    Only({IF q = Pow2(Precision)
        THEN [m |-> sign * Pow2(Precision - 1), e |-> e + s + 1]
        ELSE [m |-> sign * q, e |-> e + s] : q \in {RoundShift(n, s)}})

\* The number sign * n * 2^e (n >= 0) rounded to Precision bits.
Norm(sign, n, e) ==
    IF n = 0 THEN Zero
    ELSE Only({IF bl > Precision THEN NormDown(sign, n, e, bl - Precision)
             ELSE [m |-> sign * n * Pow2(Precision - bl),
                   e |-> e - (Precision - bl)] : bl \in {BitLen(n)}})

FromInt(n) == Norm(Sgn(n), Abs(n), 0)

Neg(a) == IF IsNaN(a) THEN NaN ELSE [m |-> -a.m, e |-> a.e]

Mul(a, b) ==
    IF IsNaN(a) \/ IsNaN(b) THEN NaN
    ELSE Norm(Sgn(a.m) * Sgn(b.m), Abs(a.m) * Abs(b.m), a.e + b.e)

\* sign * (n / d) * 2^e rounded, from the quotient q and remainder r of n / d,
\* where q has Precision or Precision + 1 bits.
DivRound(sign, q, r, d, e) ==
    IF q >= Pow2(Precision)
    THEN Norm(sign,
              IF q % 2 = 1 /\ (r > 0 \/ (q \div 2) % 2 = 1)
              THEN (q \div 2) + 1 ELSE q \div 2,
              e + 1)
    ELSE Norm(sign,
              IF 2 * r > d \/ (2 * r = d /\ q % 2 = 1) THEN q + 1 ELSE q,
              e)

Div(a, b) ==
    IF IsNaN(a) \/ IsNaN(b) \/ b.m = 0 THEN NaN
    ELSE IF a.m = 0 THEN Zero
    ELSE DivRound(Sgn(a.m) * Sgn(b.m),
                  (Abs(a.m) * Pow2(Precision)) \div Abs(b.m),
                  (Abs(a.m) * Pow2(Precision)) % Abs(b.m),
                  Abs(b.m), a.e - b.e - Precision)

\* hi + lo where hi.e >= lo.e and neither is zero.
AddAligned(hi, lo) ==
    IF hi.e - lo.e > Precision THEN hi
    ELSE Only({Norm(Sgn(n), Abs(n), lo.e) : n \in {hi.m * Pow2(hi.e - lo.e) + lo.m}})

Add(a, b) ==
    IF IsNaN(a) \/ IsNaN(b) THEN NaN
    ELSE IF a.m = 0 THEN b
    ELSE IF b.m = 0 THEN a
    ELSE IF a.e >= b.e THEN AddAligned(a, b)
    ELSE AddAligned(b, a)

Sub(a, b) == Add(a, Neg(b))

\* Comparisons of iirdsp_real: FALSE as soon as one side is NaN.
Lt(a, b) == ~IsNaN(a) /\ ~IsNaN(b) /\ Sub(a, b).m < 0

Le(a, b) == ~IsNaN(a) /\ ~IsNaN(b) /\ Sub(a, b).m <= 0

Gt(a, b) == Lt(b, a)

Ge(a, b) == Le(b, a)

\* Nearest integer to a (ties to even); |a| is small wherever this is used.
RoundToInt(a) ==
    IF a.m = 0 THEN 0
    ELSE IF a.e >= 0 THEN a.m * Pow2(a.e)
    ELSE IF -a.e > Precision + 1 THEN 0
    ELSE Sgn(a.m) * RoundShift(Abs(a.m), -a.e)

\* ------------------------------------------------------------------ <math.h>
\* 3.14159265358979323846; 355/113 rounds to the same iirdsp_real.
M_PI == Div(FromInt(355), FromInt(113))

\* pi/2 = PiHalf1 + PiHalf2 + PiHalf3; the first two have so few significant
\* bits that k * PiHalf1 and k * PiHalf2 are exact for the small k used in
\* the argument reduction of sin and cos.
PiHalf1 == Div(FromInt(201), FromInt(128))

PiHalf2 == Div(FromInt(126), FromInt(262144))

PiHalf3 == Div(FromInt(317494), Mul(FromInt(100000), FromInt(1000000)))

TwoOverPi == Div(FromInt(2), M_PI)

\* x - kf * pi/2
ReduceBy(x, kf) ==
    Sub(Sub(Sub(x, Mul(kf, PiHalf1)), Mul(kf, PiHalf2)), Mul(kf, PiHalf3))

\* Quadrant k and reduced argument r of x >= 0: x = k * pi/2 + r, |r| <= pi/4.
Reduce(x) ==
    Only({[k |-> k, r |-> ReduceBy(x, FromInt(k))] : k \in {RoundToInt(Mul(x, TwoOverPi))}})

\* sin r = r (1 - r^2/6 (1 - r^2/20 (1 - r^2/42))) on |r| <= pi/4.
SinPoly(r) ==
    Only({Mul(r, Sub(FromInt(1), Mul(Div(r2, FromInt(6)),
               Sub(FromInt(1), Mul(Div(r2, FromInt(20)),
               Sub(FromInt(1), Div(r2, FromInt(42)))))))) : r2 \in {Mul(r, r)}})

\* cos r = 1 - r^2/2 (1 - r^2/12 (1 - r^2/30 (1 - r^2/56))) on |r| <= pi/4.
CosPoly(r) ==
    Only({Sub(FromInt(1), Mul(Div(r2, FromInt(2)),
        Sub(FromInt(1), Mul(Div(r2, FromInt(12)),
        Sub(FromInt(1), Mul(Div(r2, FromInt(30)),
        Sub(FromInt(1), Div(r2, FromInt(56))))))))) : r2 \in {Mul(r, r)}})

\* sin of the quadrant q (mod 4) and reduced argument r.
SinQuadrant(q, r) ==
    CASE q % 4 = 0 -> SinPoly(r)
      [] q % 4 = 1 -> CosPoly(r)
      [] q % 4 = 2 -> Neg(SinPoly(r))
      [] OTHER     -> Neg(CosPoly(r))

sin(x) ==
    IF IsNaN(x) THEN NaN
    ELSE IF x.m < 0
    THEN Only({Neg(SinQuadrant(rd.k, rd.r)) : rd \in {Reduce(Neg(x))}})
    ELSE Only({SinQuadrant(rd.k, rd.r) : rd \in {Reduce(x)}})

cos(x) ==
    IF IsNaN(x) THEN NaN
    ELSE Only({SinQuadrant(rd.k + 1, rd.r) : rd \in {Reduce(IF x.m < 0 THEN Neg(x) ELSE x)}})

tan(x) == Div(sin(x), cos(x))

RECURSIVE ISqrtBits(_, _, _)
\* Largest s' >= s with s'^2 <= n, trying the bits bit, bit-1, ..., 0.
ISqrtBits(n, s, bit) ==
    IF bit < 0 THEN s
    ELSE ISqrtBits(n,
                   IF (s + Pow2(bit)) * (s + Pow2(bit)) <= n
                   THEN s + Pow2(bit) ELSE s,
                   bit - 1)

\* sqrt(n * 2^e) for n > 0 and even e.
SqrtEven(n, e) ==
    Only({Norm(1, IF n - s * s > s THEN s + 1 ELSE s, e \div 2) : s \in {ISqrtBits(n, 0, Precision - 1)}})

sqrt(a) ==
    IF IsNaN(a) \/ a.m < 0 THEN NaN
    ELSE IF a.m = 0 THEN Zero
    ELSE IF (a.e - Precision) % 2 = 0
    THEN SqrtEven(a.m * Pow2(Precision), a.e - Precision)
    ELSE SqrtEven(a.m * Pow2(Precision - 1), a.e - (Precision - 1))

\* ------------------------------------------------------ sos.h: data structures
\* A C array written element by element, held as an explicit table.
Array(a) == a @@ <<>>

SectionIdx == 0..(IIRDSP_MAX_SECTIONS - 1)

\* iirdsp_biquad_t
Biquad(b0, b1, b2, a1, a2, z1, z2) ==
    [b0 |-> b0, b1 |-> b1, b2 |-> b2, a1 |-> a1, a2 |-> a2, z1 |-> z1, z2 |-> z2]

\* --------------------------------------------------------------- butter.c
\* Lines 39-43: theta of the pole k.
PoleAngle(order, k) ==
    Div(Mul(M_PI, Add(Add(Mul(FromInt(2), FromInt(k)), FromInt(order)), FromInt(1))),
        Mul(FromInt(2), FromInt(order)))

\* poles[2k] = -sin(angle), poles[2k+1] = cos(angle), k = 0..order-1.
butter_analog_poles(order) ==
    Array([j \in 0..(2 * order - 1) |->
        IF j % 2 = 0 THEN Neg(sin(PoleAngle(order, j \div 2)))
        ELSE cos(PoleAngle(order, j \div 2))])

\* "Complex division": (num_re + j num_im) / (den_re + j den_im) as <<re, im>>.
ComplexDivide(num_re, num_im, den_re, den_im) ==
    Only({<<Div(Add(Mul(num_re, den_re), Mul(num_im, den_im)), denom),
            Div(Sub(Mul(num_im, den_re), Mul(num_re, den_im)), denom)>>
          : denom \in {Add(Mul(den_re, den_re), Mul(den_im, den_im))}})

\* Lines 84-96: the digital pole of the analog pole p_re + j p_im.
PoleZ(p_re, p_im, fs2) ==
    ComplexDivide(Add(FromInt(1), Div(p_re, fs2)), Div(p_im, fs2),
                  Sub(FromInt(1), Div(p_re, fs2)), Div(Neg(p_im), fs2))

\* a[j] = pairs[j / width][j % width]: the array that holds the tuples of
\* pairs one after the other.
Flatten(pairs, count, width) ==
    Array([j \in 0..(width * count - 1) |-> pairs[j \div width][(j % width) + 1]])

\* Lines 82-97: the array poles_z.
PolesZ(poles_s, num_poles, fs2) ==
    Only({Flatten(pz, num_poles, 2)
          : pz \in {Array([i \in 0..(num_poles - 1) |->
                              PoleZ(poles_s[2 * i], poles_s[2 * i + 1], fs2)])}})

\* ZeroZ without the second loop of the band-pass branch: the upper half of
\* the zeros is at z = -1 as well.
ZeroZ_all_minus(j, actual_num_zeros, filter_type) ==
    IF j % 2 = 1 THEN Zero
    ELSE IF filter_type = 1 THEN FromInt(1)
    ELSE FromInt(-1)

\* Lines 99-122: zeros_z[j], j = 0..2*actual_num_zeros-1, by filter type.
ZeroZ(j, actual_num_zeros, filter_type) ==
    IF j % 2 = 1 THEN Zero
    ELSE IF filter_type = 0 THEN FromInt(-1)
    ELSE IF filter_type = 1 THEN FromInt(1)
    ELSE IF j \div 2 < actual_num_zeros \div 2 THEN FromInt(-1)
    ELSE FromInt(1)

\* Lines 130-147: <<p1_re, p1_im, p2_re, p2_im>> of the section i.
PolePair(poles_z, num_poles, i) ==
    IF 2 * i + 1 < num_poles
    THEN <<poles_z[4 * i], poles_z[4 * i + 1], poles_z[4 * i + 2], poles_z[4 * i + 3]>>
    ELSE IF 2 * i < num_poles
    THEN <<poles_z[2 * (num_poles - 1)], poles_z[2 * (num_poles - 1) + 1],
           poles_z[2 * (num_poles - 1)], Neg(poles_z[2 * (num_poles - 1) + 1])>>
    ELSE <<Zero, Zero, Zero, Zero>>

\* Lines 149-166: <<z1_re, z1_im, z2_re, z2_im>> of the section i.
ZeroPair(zeros_z, actual_num_zeros, i) ==
    IF 2 * i + 1 < actual_num_zeros
    THEN <<zeros_z[4 * i], zeros_z[4 * i + 1], zeros_z[4 * i + 2], zeros_z[4 * i + 3]>>
    ELSE IF 2 * i < actual_num_zeros
    THEN <<zeros_z[2 * (actual_num_zeros - 1)], zeros_z[2 * (actual_num_zeros - 1) + 1],
           zeros_z[2 * (actual_num_zeros - 1)], zeros_z[2 * (actual_num_zeros - 1) + 1]>>
    ELSE <<zeros_z[0], zeros_z[1], zeros_z[0], zeros_z[1]>>

\* Lines 168-186: the section written from p = <<p1_re, p1_im, p2_re, p2_im>>
\* and z = <<z1_re, z1_im, z2_re, z2_im>>; b0 = a0 = 1.0.
PairSection(p, z) ==
    Biquad(Div(FromInt(1), FromInt(1)),
           Div(Neg(Add(z[1], z[3])), FromInt(1)),
           Div(Sub(Mul(z[1], z[3]), Mul(z[2], z[4])), FromInt(1)),
           Div(Neg(Add(p[1], p[3])), FromInt(1)),
           Div(Sub(Mul(p[1], p[3]), Mul(p[2], p[4])), FromInt(1)),
           Zero, Zero)

\* PairSections without the lines 185-186: z1 and z2 keep what they held.
PairSections_keep_state(poles_z, zeros_z, num_poles, actual_num_zeros, num_sections, f) ==
    [num_sections |-> num_sections,
     sections |-> Array([i \in SectionIdx |->
         IF i < num_sections
         THEN [PairSection(PolePair(poles_z, num_poles, i),
                           ZeroPair(zeros_z, actual_num_zeros, i))
                  EXCEPT !.z1 = f.sections[i].z1, !.z2 = f.sections[i].z2]
         ELSE f.sections[i]])]

\* Lines 79 and 124-187: the cascade written from poles_z and zeros_z.
PairSections(poles_z, zeros_z, num_poles, actual_num_zeros, num_sections, f) ==
    [num_sections |-> num_sections,
     sections |-> Array([i \in SectionIdx |->
         IF i < num_sections
         THEN PairSection(PolePair(poles_z, num_poles, i),
                          ZeroPair(zeros_z, actual_num_zeros, i))
         ELSE f.sections[i]])]

\* Lines 100-122: the array zeros_z.
ZerosZ(actual_num_zeros, filter_type) ==
    Array([j \in 0..(2 * actual_num_zeros - 1) |-> ZeroZ(j, actual_num_zeros, filter_type)])

\* bilinear_zpk with num_sections = num_poles / 2, the odd pole dropped.
bilinear_zpk_floor(poles_s, num_poles, fs_hz, filter_type, f) ==
    Only({PairSections(poles_z, zeros_z, num_poles, num_poles, num_poles \div 2, f)
          : poles_z \in {PolesZ(poles_s, num_poles, Mul(FromInt(2), fs_hz))},
            zeros_z \in {ZerosZ(num_poles, filter_type)}})

\* bilinear_zpk(poles_s, NULL, num_poles, 0, fs_hz, filter_type, f): the
\* cascade it leaves.  zeros_s and num_zeros are never read by the code.
bilinear_zpk(poles_s, num_poles, fs_hz, filter_type, f) ==
    Only({PairSections(poles_z, zeros_z, num_poles, num_poles, (num_poles + 1) \div 2, f)
          : poles_z \in {PolesZ(poles_s, num_poles, Mul(FromInt(2), fs_hz))},
            zeros_z \in {ZerosZ(num_poles, filter_type)}})

\* Lines 207-218: H(e^jw) of the section s, as <<h_re, h_im>>; t holds
\* <<cos_w, sin_w, cos_2w, sin_2w>>.
SectionResponse(s, t) ==
    ComplexDivide(Add(Add(s.b0, Mul(s.b1, t[1])), Mul(s.b2, t[3])),
                  Sub(Mul(Neg(s.b1), t[2]), Mul(s.b2, t[4])),
                  Add(Add(FromInt(1), Mul(s.a1, t[1])), Mul(s.a2, t[3])),
                  Sub(Mul(Neg(s.a1), t[2]), Mul(s.a2, t[4])))

\* Lines 220-224: the gain g times the section response h.
Accumulate(g, h) ==
    <<Sub(Mul(g[1], h[1]), Mul(g[2], h[2])), Add(Mul(g[1], h[2]), Mul(g[2], h[1]))>>

RECURSIVE GainLoop(_, _, _)
\* Lines 203-225: <<gain_re, gain_im>> after the sections 0..n-1.
GainLoop(f, t, n) ==
    IF n <= 0 THEN <<FromInt(1), Zero>>
    ELSE Only({Accumulate(g, h)
               : g \in {GainLoop(f, t, n - 1)},
                 h \in {SectionResponse(f.sections[n - 1], t)}})

\* Line 227.
Magnitude(g) == sqrt(Add(Mul(g[1], g[1]), Mul(g[2], g[2])))

\* Lines 199-202: <<cos_w, sin_w, cos_2w, sin_2w>>.
Phasors(w) == <<cos(w), sin(w), cos(Mul(FromInt(2), w)), sin(Mul(FromInt(2), w))>>

compute_gain_at_freq(f, freq) ==
    Only({Magnitude(GainLoop(f, t, f.num_sections))
          : t \in {Phasors(Mul(Mul(FromInt(2), M_PI), freq))}})

\* 1e-10
GainThreshold == Mul(Div(FromInt(1), FromInt(100000)), Div(FromInt(1), FromInt(100000)))

\* normalize_gain without the test of line 240: it divides by any gain.
normalize_gain_no_threshold(f, freq) ==
    Only({[f EXCEPT !.sections[0].b0 = Div(@, gain),
                    !.sections[0].b1 = Div(@, gain),
                    !.sections[0].b2 = Div(@, gain)]
          : gain \in {compute_gain_at_freq(f, freq)}})

normalize_gain(f, freq) ==
    Only({IF Gt(gain, GainThreshold)
          THEN [f EXCEPT !.sections[0].b0 = Div(@, gain),
                         !.sections[0].b1 = Div(@, gain),
                         !.sections[0].b2 = Div(@, gain)]
          ELSE f
          : gain \in {compute_gain_at_freq(f, freq)}})

\* 2.0 * fs_hz * tan(M_PI * f_hz / fs_hz)
Prewarp(f_hz, fs_hz) ==
    Mul(Mul(FromInt(2), fs_hz), tan(Div(Mul(M_PI, f_hz), fs_hz)))

\* Lines 277-280: the array poles_s after the loop.
LowpassPoles(poles_a, order, wc_warped) ==
    Array([j \in 0..(2 * order - 1) |-> Mul(poles_a[j], wc_warped)])

\* Lines 271-290 of butter_lowpass_init: the design, once the arguments are
\* accepted.
LowpassDesign(f, order, cutoff_hz, fs_hz) ==
    Only({[ret |-> 0, f |-> normalize_gain(f1, Zero)]
          : f1 \in {bilinear_zpk(LowpassPoles(butter_analog_poles(order), order,
                                              Prewarp(cutoff_hz, fs_hz)),
                                 order, fs_hz, 0, f)}})

\* butter_lowpass_init with its two argument checks in the other order.
butter_lowpass_init_freq_first(f, order, cutoff_hz, fs_hz) ==
    IF Le(cutoff_hz, Zero) \/ Ge(cutoff_hz, Div(fs_hz, FromInt(2)))
    THEN [ret |-> -2, f |-> f]
    ELSE IF order <= 0 \/ order > 2 * IIRDSP_MAX_SECTIONS THEN [ret |-> -1, f |-> f]
    ELSE LowpassDesign(f, order, cutoff_hz, fs_hz)

butter_lowpass_init(f, order, cutoff_hz, fs_hz) ==
    IF order <= 0 \/ order > 2 * IIRDSP_MAX_SECTIONS THEN [ret |-> -1, f |-> f]
    ELSE IF Le(cutoff_hz, Zero) \/ Ge(cutoff_hz, Div(fs_hz, FromInt(2)))
    THEN [ret |-> -2, f |-> f]
    ELSE LowpassDesign(f, order, cutoff_hz, fs_hz)

\* Lines 326-335: the prototype pole p_re + j p_im inverted and scaled.
HighpassPole(p_re, p_im, wc_warped) ==
    Only({<<Div(Mul(Neg(p_re), wc_warped), mag_sq),
            Div(Mul(Neg(p_im), wc_warped), mag_sq)>>
          : mag_sq \in {Add(Mul(p_re, p_re), Mul(p_im, p_im))}})

\* Lines 326-335: the array poles_s after the loop.
HighpassPoles(poles_a, order, wc_warped) ==
    Only({Flatten(hp, order, 2)
          : hp \in {Array([i \in 0..(order - 1) |->
                              HighpassPole(poles_a[2 * i], poles_a[2 * i + 1],
                                           wc_warped)])}})

\* Lines 319-343 of butter_highpass_init: the design, once the arguments are
\* accepted.
HighpassDesign(f, order, cutoff_hz, fs_hz) ==
    Only({[ret |-> 0, f |-> normalize_gain(f1, Div(FromInt(1), FromInt(2)))]
          : f1 \in {Only({bilinear_zpk(HighpassPoles(poles_a, order, wc_warped),
                                       order, fs_hz, 1, f)
                          : poles_a \in {butter_analog_poles(order)},
                            wc_warped \in {Prewarp(cutoff_hz, fs_hz)}})}})

\* butter_highpass_init that accepts a cutoff of exactly fs / 2.
butter_highpass_init_nyquist(f, order, cutoff_hz, fs_hz) ==
    IF order <= 0 \/ order > 2 * IIRDSP_MAX_SECTIONS THEN [ret |-> -1, f |-> f]
    ELSE IF Le(cutoff_hz, Zero) \/ Gt(cutoff_hz, Div(fs_hz, FromInt(2)))
    THEN [ret |-> -2, f |-> f]
    ELSE HighpassDesign(f, order, cutoff_hz, fs_hz)

butter_highpass_init(f, order, cutoff_hz, fs_hz) ==
    IF order <= 0 \/ order > 2 * IIRDSP_MAX_SECTIONS THEN [ret |-> -1, f |-> f]
    ELSE IF Le(cutoff_hz, Zero) \/ Ge(cutoff_hz, Div(fs_hz, FromInt(2)))
    THEN [ret |-> -2, f |-> f]
    ELSE HighpassDesign(f, order, cutoff_hz, fs_hz)

\* Lines 402-419: the two poles written for alpha, beta_sq and im = p_im * bw,
\* as <<re, im, re, im>>.
BandpassRoots(alpha, beta_sq, im) ==
    IF Ge(beta_sq, Zero)
    THEN Only({<<Add(alpha, beta), im, Sub(alpha, beta), im>>
               : beta \in {sqrt(beta_sq)}})
    ELSE Only({<<alpha, Add(beta, im), alpha, Add(Neg(beta), im)>>
               : beta \in {sqrt(Neg(beta_sq))}})

\* Lines 392-420: the two band-pass poles of the prototype pole p_re + j p_im.
BandpassPolePair(p_re, p_im, w0, bw) ==
    Only({BandpassRoots(alpha, Sub(Mul(alpha, alpha), Mul(w0, w0)), Mul(p_im, bw))
          : alpha \in {Div(Mul(Neg(p_re), bw), FromInt(2))}})

\* Lines 389-420: the array poles_bp after the loop; bp_count = 2 * order.
BandpassPoles(poles_lp, order, w0, bw) ==
    Only({Flatten(bp, order, 4)
          : bp \in {Array([i \in 0..(order - 1) |->
                              BandpassPolePair(poles_lp[2 * i], poles_lp[2 * i + 1],
                                               w0, bw)])}})

\* Lines 377-420: poles_bp from the two cutoffs.
BandpassPrototype(order, wc1, wc2) ==
    Only({BandpassPoles(poles_lp, order, w0, Sub(wc2, wc1))
          : poles_lp \in {butter_analog_poles(order)}, w0 \in {sqrt(Mul(wc1, wc2))}})

\* Lines 377-429 of butter_bandpass_init: the design, once the arguments are
\* accepted.
BandpassDesign(f, order, f_low_hz, f_high_hz, fs_hz) ==
    Only({[ret |-> 0,
           f |-> normalize_gain(f1, Div(sqrt(Mul(f_low_hz, f_high_hz)), fs_hz))]
          : f1 \in {Only({bilinear_zpk(BandpassPrototype(order, wc1, wc2),
                                       2 * order, fs_hz, 2, f)
                          : wc1 \in {Prewarp(f_low_hz, fs_hz)},
                            wc2 \in {Prewarp(f_high_hz, fs_hz)}})}})

\* butter_bandpass_init with the order limit of the low-pass, 2 *
\* IIRDSP_MAX_SECTIONS.  Of a design past IIRDSP_MAX_SECTIONS only the section
\* count is kept: its other writes fall outside the cascade.
butter_bandpass_init_double_range(f, order, f_low_hz, f_high_hz, fs_hz) ==
    IF order <= 0 \/ order > 2 * IIRDSP_MAX_SECTIONS THEN [ret |-> -1, f |-> f]
    ELSE IF Le(f_low_hz, Zero) \/ Le(f_high_hz, f_low_hz)
            \/ Ge(f_high_hz, Div(fs_hz, FromInt(2)))
    THEN [ret |-> -2, f |-> f]
    ELSE IF order > IIRDSP_MAX_SECTIONS
    THEN [ret |-> 0, f |-> [f EXCEPT !.num_sections = (2 * order + 1) \div 2]]
    ELSE BandpassDesign(f, order, f_low_hz, f_high_hz, fs_hz)

butter_bandpass_init(f, order, f_low_hz, f_high_hz, fs_hz) ==
    IF order <= 0 \/ order > IIRDSP_MAX_SECTIONS THEN [ret |-> -1, f |-> f]
    ELSE IF Le(f_low_hz, Zero) \/ Le(f_high_hz, f_low_hz)
            \/ Ge(f_high_hz, Div(fs_hz, FromInt(2)))
    THEN [ret |-> -2, f |-> f]
    ELSE BandpassDesign(f, order, f_low_hz, f_high_hz, fs_hz)

\* ------------------------------------------------- butter.c, array accesses
\* ArraySize with poles_lp declared with one element for each pole.
ArraySize_lp_per_pole(a) ==
    CASE a = "poles_s" -> 2 * IIRDSP_MAX_SECTIONS * 2
      [] a = "poles_lp" -> IIRDSP_MAX_SECTIONS
      [] a = "poles_bp" -> 2 * IIRDSP_MAX_SECTIONS * 4
      [] a = "poles_z" -> 2 * IIRDSP_MAX_SECTIONS * 2
      [] a = "zeros_z" -> 2 * IIRDSP_MAX_SECTIONS * 2
      [] a = "sections" -> IIRDSP_MAX_SECTIONS

\* The declared number of elements of the arrays of the design functions
\* (lines 82, 100, 272, 320, 378, 389) and of iirdsp_filter_t.
ArraySize(a) ==
    CASE a = "poles_s" -> 2 * IIRDSP_MAX_SECTIONS * 2
      [] a = "poles_lp" -> 2 * IIRDSP_MAX_SECTIONS
      [] a = "poles_bp" -> 2 * IIRDSP_MAX_SECTIONS * 4
      [] a = "poles_z" -> 2 * IIRDSP_MAX_SECTIONS * 2
      [] a = "zeros_z" -> 2 * IIRDSP_MAX_SECTIONS * 2
      [] a = "sections" -> IIRDSP_MAX_SECTIONS

\* An access is <<array, index>>.  The accesses a[2i] and a[2i + 1] of a loop
\* for (i = 0; i < n; i++).
PairAccesses(a, n) == {<<a, j>> : j \in 0..(2 * n - 1)}

\* The accesses sections[i] of a loop for (i = 0; i < n; i++).
SectionAccesses(n) == {<<"sections", i>> : i \in 0..(n - 1)}

\* Lines 130-147: the elements of poles_z read for the section i.
PolePairReads(num_poles, i) ==
    IF 2 * i + 1 < num_poles THEN {<<"poles_z", j>> : j \in (4 * i)..(4 * i + 3)}
    ELSE IF 2 * i < num_poles
    THEN {<<"poles_z", 2 * (num_poles - 1)>>, <<"poles_z", 2 * (num_poles - 1) + 1>>}
    ELSE {}

\* Lines 149-166: the elements of zeros_z read for the section i.
ZeroPairReads(actual_num_zeros, i) ==
    IF 2 * i + 1 < actual_num_zeros THEN {<<"zeros_z", j>> : j \in (4 * i)..(4 * i + 3)}
    ELSE IF 2 * i < actual_num_zeros
    THEN {<<"zeros_z", 2 * (actual_num_zeros - 1)>>,
          <<"zeros_z", 2 * (actual_num_zeros - 1) + 1>>}
    ELSE {<<"zeros_z", 0>>, <<"zeros_z", 1>>}

\* Lines 125-187: the elements read by the pairing loop.
PairingReads(num_poles) ==
    UNION {PolePairReads(num_poles, i) \cup ZeroPairReads(num_poles, i)
           : i \in 0..(((num_poles + 1) \div 2) - 1)}

\* The elements bilinear_zpk and normalize_gain write, poles_s being the
\* array of num_poles poles handed to bilinear_zpk.
ZpkWrites(num_poles) ==
    PairAccesses("poles_z", num_poles) \cup PairAccesses("zeros_z", num_poles)
        \cup SectionAccesses((num_poles + 1) \div 2)

\* The elements they read.
ZpkReads(poles_s, num_poles) ==
    PairAccesses(poles_s, num_poles) \cup PairingReads(num_poles)
        \cup SectionAccesses((num_poles + 1) \div 2)

\* The elements an accepted design call of the given order writes: lines
\* 272-285, 320-338 and 378-423.
DesignWrites(op, order) ==
    IF op = "butter_bandpass_init"
    THEN PairAccesses("poles_lp", order) \cup PairAccesses("poles_bp", 2 * order)
            \cup ZpkWrites(2 * order)
    ELSE PairAccesses("poles_s", order) \cup ZpkWrites(order)

\* The elements it reads.
DesignReads(op, order) ==
    IF op = "butter_bandpass_init"
    THEN PairAccesses("poles_lp", order) \cup ZpkReads("poles_bp", 2 * order)
    ELSE PairAccesses("poles_s", order) \cup ZpkReads("poles_s", order)

\* ----------------------------------------------------------------- notch.c
\* Lines 96-112: the section written from cos_w0 and alpha; b0 = b2 = 1.0.
NotchSection(cos_w0, alpha, a0) ==
    Biquad(Div(FromInt(1), a0), Div(Mul(FromInt(-2), cos_w0), a0),
           Div(FromInt(1), a0), Div(Mul(FromInt(-2), cos_w0), a0),
           Div(Sub(FromInt(1), alpha), a0), Zero, Zero)

\* NotchDesign without the write of num_sections: the count keeps what it
\* held.
NotchDesign_keep_count(f, f0_hz, Q, fs_hz) ==
    Only({[ret |-> 0,
           f |-> [num_sections |-> f.num_sections,
                  sections |-> [f.sections EXCEPT ![0] = s]]]
          : s \in {Only({Only({NotchSection(cos(w0), alpha, Add(FromInt(1), alpha))
                               : alpha \in {Div(sin(w0), Mul(FromInt(2), Q))}})
                         : w0 \in {Div(Mul(Mul(FromInt(2), M_PI), f0_hz), fs_hz)}})}})

\* Lines 89-114 of notch_filter_init: the design, once the arguments are
\* accepted.
NotchDesign(f, f0_hz, Q, fs_hz) ==
    Only({[ret |-> 0,
           f |-> [num_sections |-> 1,
                  sections |-> [f.sections EXCEPT ![0] = s]]]
          : s \in {Only({Only({NotchSection(cos(w0), alpha, Add(FromInt(1), alpha))
                               : alpha \in {Div(sin(w0), Mul(FromInt(2), Q))}})
                         : w0 \in {Div(Mul(Mul(FromInt(2), M_PI), f0_hz), fs_hz)}})}})

\* notch_filter_init that empties the cascade when it rejects its arguments.
notch_filter_init_clear(f, f0_hz, Q, fs_hz) ==
    IF Le(Q, Zero) \/ Le(f0_hz, Zero) \/ Le(fs_hz, Zero)
    THEN [ret |-> -1, f |-> [f EXCEPT !.num_sections = 0]]
    ELSE IF Ge(f0_hz, Div(fs_hz, FromInt(2)))
    THEN [ret |-> -2, f |-> [f EXCEPT !.num_sections = 0]]
    ELSE NotchDesign(f, f0_hz, Q, fs_hz)

\* notch_filter_init that accepts f0_hz of exactly fs_hz / 2.
notch_filter_init_nyquist(f, f0_hz, Q, fs_hz) ==
    IF Le(Q, Zero) \/ Le(f0_hz, Zero) \/ Le(fs_hz, Zero) THEN [ret |-> -1, f |-> f]
    ELSE IF Gt(f0_hz, Div(fs_hz, FromInt(2))) THEN [ret |-> -2, f |-> f]
    ELSE NotchDesign(f, f0_hz, Q, fs_hz)

notch_filter_init(f, f0_hz, Q, fs_hz) ==
    IF Le(Q, Zero) \/ Le(f0_hz, Zero) \/ Le(fs_hz, Zero) THEN [ret |-> -1, f |-> f]
    ELSE IF Ge(f0_hz, Div(fs_hz, FromInt(2))) THEN [ret |-> -2, f |-> f]
    ELSE NotchDesign(f, f0_hz, Q, fs_hz)

\* ------------------------------------------------------------ sos.h, sos.c
RECURSIVE InitLoop_z1_only(_, _)
\* InitLoop without the line 52: z2 keeps what it held.
InitLoop_z1_only(f, n) ==
    IF n <= 0 THEN f
    ELSE [InitLoop_z1_only(f, n - 1) EXCEPT !.sections[n - 1].z1 = Zero]

RECURSIVE InitLoop(_, _)
\* Lines 50-53 of sos.h: the cascade after the iterations 0..n-1.
InitLoop(f, n) ==
    IF n <= 0 THEN f
    ELSE [InitLoop(f, n - 1) EXCEPT !.sections[n - 1].z1 = Zero,
                                    !.sections[n - 1].z2 = Zero]

\* iirdsp_filter_init that also empties the cascade, as a constructor would.
iirdsp_filter_init_empty(f) ==
    [InitLoop(f, f.num_sections) EXCEPT !.num_sections = 0]

iirdsp_filter_init(f) == InitLoop(f, f.num_sections)

\* BiquadUpdate with z2 written before z1, so that z1 gets the new z2.
BiquadUpdate_z2_first(s, x, y) ==
    Only({[s EXCEPT !.z1 = Add(Sub(Mul(s.b1, x), Mul(s.a1, y)), z2), !.z2 = z2]
          : z2 \in {Sub(Mul(s.b2, x), Mul(s.a2, y))}})

\* Lines 66-67 of sos.h: the section s after it put out y for the input x.
BiquadUpdate(s, x, y) ==
    [s EXCEPT !.z1 = Add(Sub(Mul(s.b1, x), Mul(s.a1, y)), s.z2),
              !.z2 = Sub(Mul(s.b2, x), Mul(s.a2, y))]

\* iirdsp_biquad_process without the term b0 * x in the output.
iirdsp_biquad_process_no_feedthrough(s, x) ==
    Only({[s |-> BiquadUpdate(s, x, y), y |-> y] : y \in {s.z1}})

\* The section after the sample x, and the sample it puts out.
iirdsp_biquad_process(s, x) ==
    Only({[s |-> BiquadUpdate(s, x, y), y |-> y] : y \in {Add(Mul(s.b0, x), s.z1)}})

\* Line 82 of sos.h: y = iirdsp_biquad_process(&f->sections[i], y).
SampleStep(prev, i) ==
    Only({[f |-> [prev.f EXCEPT !.sections[i] = r.s], y |-> r.y]
          : r \in {iirdsp_biquad_process(prev.f.sections[i], prev.y)}})

RECURSIVE SampleLoop(_, _, _)
\* Lines 80-83 of sos.h: the cascade and y after the iterations 0..n-1.
SampleLoop(f, x, n) ==
    IF n <= 0 THEN [f |-> f, y |-> x]
    ELSE Only({SampleStep(prev, n - 1) : prev \in {SampleLoop(f, x, n - 1)}})

iirdsp_process_sample(f, x) == SampleLoop(f, x, f.num_sections)

iirdsp_filter_reset(f) == iirdsp_filter_init(f)

\* Memory: mem[p] is the array the pointer p points to, indexed from 0.
\* Line 27 of sos.c: y[n] = iirdsp_process_sample(f, x[n]).
BufferStep(prev, x, y, n) ==
    Only({[f |-> r.f, mem |-> [prev.mem EXCEPT ![y][n] = r.y]]
          : r \in {iirdsp_process_sample(prev.f, prev.mem[x][n])}})

RECURSIVE BufferLoop(_, _, _, _, _)
\* Lines 26-28 of sos.c: the cascade and the memory after the iterations
\* 0..n-1.
BufferLoop(f, mem, x, y, n) ==
    IF n <= 0 THEN [f |-> f, mem |-> mem]
    ELSE Only({BufferStep(prev, x, y, n - 1) : prev \in {BufferLoop(f, mem, x, y, n - 1)}})

RECURSIVE BufferLoopDown(_, _, _, _, _, _)
\* The loop of iirdsp_process_buffer run from n = N-1 down to 0: the cascade
\* and the memory after the iterations N-1..n.
BufferLoopDown(f, mem, x, y, N, n) ==
    IF n >= N THEN [f |-> f, mem |-> mem]
    ELSE Only({BufferStep(prev, x, y, n) : prev \in {BufferLoopDown(f, mem, x, y, N, n + 1)}})

iirdsp_process_buffer_down(f, mem, x, y, N) == BufferLoopDown(f, mem, x, y, N, 0)

iirdsp_process_buffer(f, mem, x, y, N) == BufferLoop(f, mem, x, y, N)

\* Swap that copies p[N - 1 - i] into p[i] and leaves p[N - 1 - i].
Swap_mirror(mem, p, N, i) ==
    [mem EXCEPT ![p] = [@ EXCEPT ![i] = mem[p][N - 1 - i]]]

\* Lines 68-70 and 77-79 of sos.c: p[i] and p[N - 1 - i] swapped.
Swap(mem, p, N, i) ==
    [mem EXCEPT ![p] = [@ EXCEPT ![i] = mem[p][N - 1 - i], ![N - 1 - i] = mem[p][i]]]

RECURSIVE ReverseLoop(_, _, _, _)
\* Lines 67-71 and 76-80 of sos.c: the memory after the swaps i = 0..n-1 of
\* the array p of length N.
ReverseLoop(mem, p, N, n) ==
    IF n <= 0 THEN mem
    ELSE Only({Swap(prev, p, N, n - 1) : prev \in {ReverseLoop(mem, p, N, n - 1)}})

\* What malloc'ed storage holds before it is written.
Uninit == FromInt(7)

\* Line 50 of sos.c: the memory with the array temp of N samples added.
Malloc(mem, N) ==
    [p \in DOMAIN mem \cup {"temp"} |->
        IF p = "temp" THEN Array([n \in 0..(N - 1) |-> Uninit]) ELSE mem[p]]

\* Backward without the reset of line 64.
Backward_no_reset(fwd, y, N) ==
    Only({[f |-> bwd.f, mem |-> ReverseLoop(bwd.mem, y, N, N \div 2)]
          : bwd \in {iirdsp_process_buffer(fwd.f,
                                           ReverseLoop(fwd.mem, "temp", N, N \div 2),
                                           "temp", y, N)}})

\* Lines 63-80 of sos.c: the second reset, the reversal of temp, the pass
\* from temp into y and the reversal of y.
Backward(fwd, y, N) ==
    Only({[f |-> bwd.f, mem |-> ReverseLoop(bwd.mem, y, N, N \div 2)]
          : bwd \in {iirdsp_process_buffer(iirdsp_filter_init(fwd.f),
                                           ReverseLoop(fwd.mem, "temp", N, N \div 2),
                                           "temp", y, N)}})

\* Lines 59-61 of sos.c: the reset and the pass from x into temp.
Forward(f, mem, x, N) == iirdsp_process_buffer(iirdsp_filter_init(f), mem, x, "temp", N)

\* What the caller gets from a function declared void.
Void == "void"

\* Lines 82-83 of sos.c: the memory without the array temp; the function
\* returns nothing.
Free(r, mem) ==
    [ret |-> Void, f |-> r.f, mem |-> [p \in DOMAIN mem |-> r.mem[p]]]

\* iirdsp_filtfilt that filters x into y in one pass when malloc fails.
iirdsp_filtfilt_fallback(f, mem, x, y, N, temp_ok) ==
    IF ~temp_ok THEN Free(iirdsp_process_buffer(f, mem, x, y, N), mem)
    ELSE Only({Free(bwd, mem)
               : bwd \in {Only({Backward(fwd, y, N)
                                : fwd \in {Forward(f, Malloc(mem, N), x, N)}})}})

\* temp_ok: whether malloc returned storage.  Lines 55-57: without it the
\* function returns, and returns nothing.
iirdsp_filtfilt(f, mem, x, y, N, temp_ok) ==
    IF ~temp_ok THEN [ret |-> Void, f |-> f, mem |-> mem]
    ELSE Only({Free(bwd, mem)
               : bwd \in {Only({Backward(fwd, y, N)
                                : fwd \in {Forward(f, Malloc(mem, N), x, N)}})}})

\* --------------------------------------------------- the calls, step by step
\* A heap maps the address of each iirdsp_filter_t to its contents; the
\* functions reach a cascade only through the pointer p they are handed.
Load(heap, p) == heap[p]

\* Store with one section array for all cascades: a write to one cascade's
\* sections is a write to everyone's.
Store_shared_sections(heap, p, c) ==
    [q \in DOMAIN heap |->
        IF q = p THEN c ELSE [heap[q] EXCEPT !.sections = c.sections]]

\* Lines 38-41 of sos.h: the section array is a member of the struct, so a
\* write through p changes the cascade at p and no other.
Store(heap, p, c) == [heap EXCEPT ![p] = c]

\* A call in progress is a record m: the phases it still has to run
\* (todo), the loop counters i (section) and n (sample), the sample y on its
\* way through the cascade, and the caller's buffers mem of N samples.  A
\* phase is one loop or one statement of the function.
Phase(k, x, y) == [k |-> k, x |-> x, y |-> y]

\* The phase at the head of todo is over.
Pop(m) == [m EXCEPT !.todo = Tail(@), !.i = 0, !.n = 0]

\* The loop condition of the phase at the head of todo is false; c is the
\* cascade the call works on.
PhaseDone(m, c) ==
    CASE Head(m.todo).k = "zero" -> m.i >= c.num_sections
      [] Head(m.todo).k = "section" -> m.i >= m.plan.num_sections
      [] Head(m.todo).k = "buffer" -> m.n >= m.N
      [] OTHER -> FALSE

RECURSIVE Settle(_, _)
\* m at the next statement that touches memory.
Settle(m, c) ==
    IF m.todo = <<>> THEN m
    ELSE IF PhaseDone(m, c) THEN Settle(Pop(m), c)
    ELSE m

\* Line 80 of sos.h and line 27 of sos.c: the sample that enters section i.
CurrentSample(m) == IF m.i = 0 THEN m.mem[Head(m.todo).x][m.n] ELSE m.y

\* Line 82 of sos.h: one iteration of the loop of iirdsp_process_sample.
BiquadPhase(m, heap, p) ==
    Only({[m |-> [m EXCEPT !.y = r.y, !.i = m.i + 1], heap |-> Store(heap, p, r.f)]
          : r \in {SampleStep([f |-> Load(heap, p), y |-> CurrentSample(m)], m.i)}})

\* Line 27 of sos.c: the sample that left the cascade is stored in y[n].
StorePhase(m, heap) ==
    [m |-> [m EXCEPT !.mem[Head(m.todo).y][m.n] = CurrentSample(m),
                     !.n = m.n + 1, !.i = 0],
     heap |-> heap]

\* One statement of the call m on the cascade at p: the write of
\* num_sections (butter.c:79, notch.c), of the section i (butter.c:180-186),
\* the gain normalisation, one iteration of iirdsp_filter_init, one section
\* or one store of iirdsp_process_buffer, and malloc, a reversal and free of
\* iirdsp_filtfilt.
Step(m, heap, p) ==
    CASE Head(m.todo).k = "count" ->
           [m |-> Pop(m),
            heap |-> Store(heap, p, [Load(heap, p) EXCEPT
                                        !.num_sections = m.plan.num_sections])]
      [] Head(m.todo).k = "section" ->
           [m |-> [m EXCEPT !.i = m.i + 1],
            heap |-> Store(heap, p, [Load(heap, p) EXCEPT
                                        !.sections[m.i] = m.plan.sections[m.i]])]
      [] Head(m.todo).k = "normalize" ->
           [m |-> Pop(m), heap |-> Store(heap, p, normalize_gain(Load(heap, p), m.freq))]
      [] Head(m.todo).k = "zero" ->
           [m |-> [m EXCEPT !.i = m.i + 1],
            heap |-> Store(heap, p, [Load(heap, p) EXCEPT
                                        !.sections[m.i].z1 = Zero,
                                        !.sections[m.i].z2 = Zero])]
      [] Head(m.todo).k = "buffer" ->
           IF m.i < Load(heap, p).num_sections THEN BiquadPhase(m, heap, p)
           ELSE StorePhase(m, heap)
      [] Head(m.todo).k = "malloc" ->
           [m |-> Pop([m EXCEPT !.mem = Malloc(m.mem, m.N)]), heap |-> heap]
      [] Head(m.todo).k = "reverse" ->
           [m |-> Pop([m EXCEPT !.mem = ReverseLoop(m.mem, Head(m.todo).x, m.N,
                                                    m.N \div 2)]),
            heap |-> heap]
      [] Head(m.todo).k = "free" ->
           [m |-> Pop([m EXCEPT !.mem = [q \in DOMAIN m.mem \ {"temp"} |-> m.mem[q]]]),
            heap |-> heap]

\* The phases of the functions.
DesignPhases ==
    <<Phase("count", "", ""), Phase("section", "", ""), Phase("normalize", "", "")>>

NotchPhases == <<Phase("count", "", ""), Phase("section", "", "")>>

InitPhases == <<Phase("zero", "", "")>>

BufferPhases == <<Phase("buffer", "x", "y")>>

FiltfiltPhases ==
    <<Phase("malloc", "", ""), Phase("zero", "", ""), Phase("buffer", "x", "temp"),
      Phase("zero", "", ""), Phase("reverse", "temp", ""), Phase("buffer", "temp", "y"),
      Phase("reverse", "y", ""), Phase("free", "", "")>>

\* ------------------------------------------------------------ the program
\* f is the caller's iirdsp_filter_t.  call records the API call that has
\* just been made on it (op = "none" between calls): its arguments, the
\* cascade before it (pre), what it returned (ret), and for the calls that
\* take buffers the input x, the output buffer before (y0) and after (y),
\* whether y is the same array as x (alias) and whether malloc succeeded
\* (temp_ok).  nops counts the calls made.  f2 is a second iirdsp_filter_t,
\* and main the call on f2 that the main line of the program is in the middle
\* of while an interrupt handler works on f.
VARIABLES f, call, nops, f2, main

vars == <<f, call, nops, f2, main>>

DesignOps ==
    {"butter_lowpass_init", "butter_highpass_init", "butter_bandpass_init",
     "notch_filter_init"}

\* Section contents a fresh iirdsp_filter_t can hold: Filter() in iirdsp.hpp
\* sets only num_sections, so the sections are zero (static storage) or
\* whatever the storage held.
ZeroSection == Biquad(Zero, Zero, Zero, Zero, Zero, Zero, Zero)

JunkSection ==
    Biquad(FromInt(3), FromInt(-3), FromInt(3), FromInt(3), FromInt(-3),
           FromInt(5), FromInt(-5))

Filter(s) == [num_sections |-> 0, sections |-> Array([i \in SectionIdx |-> s])]

NoBuffer == <<>>

Idle == [op |-> "none", args |-> <<>>, ret |-> Void, x |-> NoBuffer,
         y0 |-> NoBuffer, y |-> NoBuffer, alias |-> FALSE, temp_ok |-> TRUE]

\* Arguments of the calls: <<order, cutoff_hz, fs_hz>>,
\* <<order, f_low_hz, f_high_hz, fs_hz>>, <<f0_hz, Q, fs_hz>> in whole Hz.
LowpassArgs == {<<0, 1, 5>>, <<5, 1, 5>>, <<5, 3, 5>>, <<16, 1, 5>>}

HighpassArgs == {<<17, 1, 4>>, <<1, 1, 4>>, <<1, 2, 4>>}

BandpassArgs == {<<9, 1, 2, 8>>, <<2, 1, 3, 8>>, <<2, 2, 2, 8>>, <<8, 1, 2, 8>>}

NotchArgs == {<<1, 30, 8>>, <<1, 0, 8>>, <<4, 30, 8>>}

SweepOrders == -1..18

SweepLowpassArgs == SweepOrders \X {-1, 0, 1, 2, 3} \X {-4, 0, 4, 5}

SweepBandpassArgs == (-1..10) \X {-1, 0, 1, 2, 3} \X {-1, 0, 1, 2, 3} \X {0, 5, 8}

SweepNotchArgs == {-1, 0, 1, 2, 3} \X {-1, 0, 1, 30} \X {-4, 0, 4, 5}

\* The samples of the test signal, and the input buffers cut from it.
SignalAt(n) == FromInt(<<1, 0, -2>>[(n % 3) + 1])

Samples == {FromInt(1), FromInt(-2)}

Buffers == {Array([n \in 0..(N - 1) |-> SignalAt(n)]) : N \in 0..MaxLen}

\* The buffers of 1..ImpulseLen samples that are zero except for one sample.
Impulse(N, c, a) == Array([n \in 0..(N - 1) |-> IF n = c THEN a ELSE Zero])

Impulses ==
    {Impulse(N, c, a) : N \in 1..ImpulseLen, c \in 0..(ImpulseLen - 1), a \in Samples}
        \ {Impulse(N, N, a) : N \in 1..ImpulseLen, a \in Samples}

\* What the caller's output buffer holds before the call.
Stale == FromInt(9)

\* No call on f2 is in progress.
NoMain ==
    [op |-> "none", args |-> <<>>, ret |-> Void, pre |-> Filter(ZeroSection),
     plan |-> Filter(ZeroSection), freq |-> Zero, mem0 |-> [x |-> NoBuffer],
     mem |-> [x |-> NoBuffer], N |-> 0, todo |-> <<>>, i |-> 0, n |-> 0, y |-> Zero,
     preempted |-> FALSE]

Init ==
    /\ f \in {Filter(ZeroSection), Filter(JunkSection)}
    /\ call = [Idle EXCEPT !.op = "none"] @@ [pre |-> f]
    /\ nops = 0
    /\ f2 = Filter(ZeroSection)
    /\ main = NoMain

Design(op, args, r) ==
    /\ call' = [op |-> op, args |-> args, ret |-> r.ret, pre |-> f,
                x |-> NoBuffer, y0 |-> NoBuffer, y |-> NoBuffer,
                alias |-> FALSE, temp_ok |-> TRUE]
    /\ f' = r.f
    /\ nops' = nops + 1
    /\ UNCHANGED <<f2, main>>

Ready == call.op = "none" /\ nops < MaxOps

LowpassInit(Args) ==
    /\ Ready
    /\ \E a \in Args :
       \E r \in {butter_lowpass_init(f, a[1], FromInt(a[2]), FromInt(a[3]))} :
          Design("butter_lowpass_init", a, r)

HighpassInit(Args) ==
    /\ Ready
    /\ \E a \in Args :
       \E r \in {butter_highpass_init(f, a[1], FromInt(a[2]), FromInt(a[3]))} :
          Design("butter_highpass_init", a, r)

BandpassInit(Args) ==
    /\ Ready
    /\ \E a \in Args :
       \E r \in {butter_bandpass_init(f, a[1], FromInt(a[2]), FromInt(a[3]),
                                     FromInt(a[4]))} :
          Design("butter_bandpass_init", a, r)

NotchInit(Args) ==
    /\ Ready
    /\ \E a \in Args :
       \E r \in {notch_filter_init(f, FromInt(a[1]), FromInt(a[2]), FromInt(a[3]))} :
          Design("notch_filter_init", a, r)

ProcessSample ==
    /\ Ready
    /\ \E x \in Samples :
       \E r \in {iirdsp_process_sample(f, x)} :
          /\ call' = [op |-> "iirdsp_process_sample", args |-> <<>>,
                      ret |-> r.y, pre |-> f, x |-> Array([n \in {0} |-> x]),
                      y0 |-> NoBuffer, y |-> Array([n \in {0} |-> r.y]),
                      alias |-> FALSE, temp_ok |-> TRUE]
          /\ f' = r.f
          /\ nops' = nops + 1
          /\ UNCHANGED <<f2, main>>

\* The caller's memory at the call: the input x and, unless y aliases x, an
\* output buffer of the same length.
Memory(x, alias) ==
    IF alias THEN [x |-> x] ELSE [x |-> x, y |-> Array([n \in DOMAIN x |-> Stale])]

OutPtr(alias) == IF alias THEN "x" ELSE "y"

Length(x) == Cardinality(DOMAIN x)

ProcessBuffer(Inputs) ==
    /\ Ready
    /\ \E x \in Inputs, alias \in BOOLEAN :
       \E mem \in {Memory(x, alias)} :
       \E r \in {iirdsp_process_buffer(f, mem, "x", OutPtr(alias), Length(x))} :
          /\ call' = [op |-> "iirdsp_process_buffer", args |-> <<>>,
                      ret |-> Void, pre |-> f, x |-> x,
                      y0 |-> mem[OutPtr(alias)], y |-> r.mem[OutPtr(alias)],
                      alias |-> alias, temp_ok |-> TRUE]
          /\ f' = r.f
          /\ nops' = nops + 1
          /\ UNCHANGED <<f2, main>>

Filtfilt(Inputs) ==
    /\ Ready
    /\ \E x \in Inputs, alias \in BOOLEAN, temp_ok \in BOOLEAN :
       \E mem \in {Memory(x, alias)} :
       \E r \in {iirdsp_filtfilt(f, mem, "x", OutPtr(alias), Length(x), temp_ok)} :
          /\ call' = [op |-> "iirdsp_filtfilt", args |-> <<>>,
                      ret |-> r.ret, pre |-> f, x |-> x,
                      y0 |-> mem[OutPtr(alias)], y |-> r.mem[OutPtr(alias)],
                      alias |-> alias, temp_ok |-> temp_ok]
          /\ f' = r.f
          /\ nops' = nops + 1
          /\ UNCHANGED <<f2, main>>

Reset ==
    /\ Ready
    /\ call' = [Idle EXCEPT !.op = "iirdsp_filter_reset"] @@ [pre |-> f]
    /\ f' = iirdsp_filter_reset(f)
    /\ nops' = nops + 1
    /\ UNCHANGED <<f2, main>>

FilterInit ==
    /\ Ready
    /\ call' = [Idle EXCEPT !.op = "iirdsp_filter_init"] @@ [pre |-> f]
    /\ f' = iirdsp_filter_init(f)
    /\ nops' = nops + 1
    /\ UNCHANGED <<f2, main>>

\* The call has returned and the caller has taken its results.
Return ==
    /\ call.op # "none"
    /\ call' = Idle @@ [pre |-> f]
    /\ UNCHANGED <<f, nops, f2, main>>

Next ==
    \/ LowpassInit(LowpassArgs)
    \/ HighpassInit(HighpassArgs)
    \/ BandpassInit(BandpassArgs)
    \/ NotchInit(NotchArgs)
    \/ ProcessSample
    \/ ProcessBuffer(Buffers)
    \/ Filtfilt(Buffers)
    \/ Reset
    \/ FilterInit
    \/ Return

Spec == Init /\ [][Next]_vars

\* The first design call on a fresh cascade, over every order and whole-Hz
\* frequency around the limits of the argument checks.
SweepNext ==
    \/ LowpassInit(SweepLowpassArgs)
    \/ HighpassInit(SweepLowpassArgs)
    \/ BandpassInit(SweepBandpassArgs)
    \/ NotchInit(SweepNotchArgs)

SweepSpec == Init /\ [][nops = 0 /\ SweepNext]_vars

\* notch_filter_init arguments <<f0_hz, Q, fs_hz>> with a wide notch as well.
ImpulseNotchArgs == NotchArgs \cup {<<2, 1, 8>>}

\* One design call on a fresh cascade, then one pass of a buffer holding a
\* single non-zero sample.
ImpulseNext ==
    \/ nops = 0 /\ LowpassInit(LowpassArgs)
    \/ nops = 0 /\ HighpassInit(HighpassArgs)
    \/ nops = 0 /\ BandpassInit(BandpassArgs)
    \/ nops = 0 /\ NotchInit(ImpulseNotchArgs)
    \/ nops = 1 /\ ProcessBuffer(Impulses)
    \/ nops = 1 /\ Filtfilt(Impulses)
    \/ Return

ImpulseSpec == Init /\ [][ImpulseNext]_vars

\* ------------------------------------------- two cascades and an interrupt
\* The interrupt handler owns the cascade f, at the address "A"; the main line
\* owns the cascade f2, at "B".  A call of the main line runs one statement
\* at a time, and the handler can run, from start to end, between any two of
\* them.
Heap == [A |-> f, B |-> f2]

\* The cascades the two start with: designed ones, the main line's also with
\* a sample behind it, or fresh.
PreemptDesigned(s) ==
    butter_lowpass_init(Filter(s), PreemptLen + 1, FromInt(1), FromInt(5)).f

PreemptInit ==
    /\ f = PreemptDesigned(ZeroSection)
    /\ f2 \in {iirdsp_process_sample(PreemptDesigned(JunkSection), FromInt(-2)).f,
                Filter(JunkSection)}
    /\ call = [Idle EXCEPT !.op = "none"] @@ [pre |-> f]
    /\ nops = 0
    /\ main = NoMain

PreemptBuffers == {x \in Buffers : Length(x) = PreemptLen}

\* The main line, in no call, enters the call m on f2.
MainCall(m) ==
    /\ nops < MaxOps
    /\ main' = Settle([m EXCEPT !.pre = f2, !.mem = m.mem0], f2)
    /\ nops' = nops + 1
    /\ UNCHANGED <<f, f2, call>>

\* butter_lowpass_init(&f2, ...): the argument checks and the poles touch no
\* cascade; the call then writes num_sections, the sections and the gain.
MainLowpass ==
    /\ main.op = "none"
    /\ \E a \in LowpassArgs :
       \E r \in {butter_lowpass_init(f2, a[1], FromInt(a[2]), FromInt(a[3]))} :
           MainCall([NoMain EXCEPT !.op = "butter_lowpass_init", !.args = a,
                                   !.ret = r.ret,
                                   !.plan = IF r.ret = 0
                                            THEN bilinear_zpk(
                                                   LowpassPoles(butter_analog_poles(a[1]), a[1],
                                                       Prewarp(FromInt(a[2]), FromInt(a[3]))),
                                                   a[1], FromInt(a[3]), 0, f2)
                                            ELSE f2,
                                   !.todo = IF r.ret = 0 THEN DesignPhases ELSE <<>>])

\* notch_filter_init(&f2, ...).
MainNotch ==
    /\ main.op = "none"
    /\ \E a \in NotchArgs :
       \E r \in {notch_filter_init(f2, FromInt(a[1]), FromInt(a[2]), FromInt(a[3]))} :
           MainCall([NoMain EXCEPT !.op = "notch_filter_init", !.args = a,
                                   !.ret = r.ret, !.plan = r.f,
                                   !.todo = IF r.ret = 0 THEN NotchPhases ELSE <<>>])

\* iirdsp_filter_reset(&f2).
MainReset ==
    /\ main.op = "none"
    /\ MainCall([NoMain EXCEPT !.op = "iirdsp_filter_reset", !.todo = InitPhases])

\* iirdsp_process_sample(&f2, x), the cell y[0] standing for the value it
\* returns.
MainSample ==
    /\ main.op = "none"
    /\ \E x \in Samples :
           MainCall([NoMain EXCEPT !.op = "iirdsp_process_sample",
                                   !.mem0 = Memory(Array([n \in {0} |-> x]), FALSE),
                                   !.N = 1, !.todo = BufferPhases])

\* iirdsp_process_buffer(&f2, x, y, N).
MainBuffer ==
    /\ main.op = "none"
    /\ \E x \in PreemptBuffers :
           MainCall([NoMain EXCEPT !.op = "iirdsp_process_buffer",
                                   !.mem0 = Memory(x, FALSE),
                                   !.N = Length(x), !.todo = BufferPhases])

\* iirdsp_filtfilt(&f2, x, y, N): it returns at once when malloc gives NULL.
MainFiltfilt ==
    /\ main.op = "none"
    /\ \E x \in PreemptBuffers, temp_ok \in BOOLEAN :
           MainCall([NoMain EXCEPT !.op = "iirdsp_filtfilt", !.args = <<temp_ok>>,
                                   !.mem0 = Memory(x, FALSE),
                                   !.N = Length(x),
                                   !.todo = IF temp_ok THEN FiltfiltPhases ELSE <<>>])

\* The main line runs the next statement of its call.
MainStep ==
    /\ main.todo # <<>>
    /\ \E r \in {Step(main, Heap, "B")} :
          /\ main' = Settle(r.m, Load(r.heap, "B"))
          /\ f' = Load(r.heap, "A")
          /\ f2' = Load(r.heap, "B")
    /\ UNCHANGED <<call, nops>>

\* The handler runs iirdsp_process_sample(&f, x) on the next sample of the
\* signal.
IsrSample ==
    /\ nops < MaxOps
    /\ \E r \in {iirdsp_process_sample(Load(Heap, "A"), SignalAt(nops))} :
       \E heap \in {Store(Heap, "A", r.f)} :
          /\ call' = [op |-> "iirdsp_process_sample", args |-> <<>>,
                      ret |-> r.y, pre |-> f,
                      x |-> Array([n \in {0} |-> SignalAt(nops)]),
                      y0 |-> NoBuffer, y |-> Array([n \in {0} |-> r.y]),
                      alias |-> FALSE, temp_ok |-> TRUE]
          /\ f' = Load(heap, "A")
          /\ f2' = Load(heap, "B")
    /\ nops' = nops + 1
    /\ main' = [main EXCEPT !.preempted = @ \/ main.todo # <<>>]

\* The handler runs iirdsp_process_buffer(&f, x, y, N).
IsrBuffer ==
    /\ nops < MaxOps
    /\ \E x \in PreemptBuffers :
       \E r \in {iirdsp_process_buffer(Load(Heap, "A"), Memory(x, FALSE), "x", "y",
                                        Length(x))} :
       \E heap \in {Store(Heap, "A", r.f)} :
          /\ call' = [op |-> "iirdsp_process_buffer", args |-> <<>>,
                      ret |-> Void, pre |-> f, x |-> x,
                      y0 |-> Memory(x, FALSE).y, y |-> r.mem.y,
                      alias |-> FALSE, temp_ok |-> TRUE]
          /\ f' = Load(heap, "A")
          /\ f2' = Load(heap, "B")
    /\ nops' = nops + 1
    /\ main' = [main EXCEPT !.preempted = @ \/ main.todo # <<>>]

PreemptNext ==
    \/ MainLowpass
    \/ MainNotch
    \/ MainReset
    \/ MainSample
    \/ MainBuffer
    \/ MainFiltfilt
    \/ MainStep
    \/ IsrSample
    \/ IsrBuffer

PreemptSpec == PreemptInit /\ [][PreemptNext]_vars

\* ------------------------------------------------------------ the claims
Butterworth ==
    {"butter_lowpass_init", "butter_highpass_init", "butter_bandpass_init"}

LowHigh == {"butter_lowpass_init", "butter_highpass_init"}

\* ceil(n / 2) for n >= 0.
CeilHalf(n) == CHOOSE k \in 0..n : 2 * k >= n /\ 2 * (k - 1) < n

\* C1: a successful butter_lowpass_init or butter_highpass_init of order N
\* leaves num_sections = ceil(N/2), a successful butter_bandpass_init of order
\* N leaves num_sections = N.
C1_SectionCount ==
    /\ (call.op \in LowHigh /\ call.ret = 0)
          => f.num_sections = CeilHalf(call.args[1])
    /\ (call.op = "butter_bandpass_init" /\ call.ret = 0)
          => f.num_sections = call.args[1]

C1_Witness ==
    /\ call.op = "butter_lowpass_init"
    /\ call.ret = 0
    /\ call.args[1] = 2 * IIRDSP_MAX_SECTIONS - 1
    /\ f.num_sections = IIRDSP_MAX_SECTIONS

\* The order of the call is outside the range the entry point takes.
BadOrder ==
    \/ call.args[1] <= 0
    \/ call.op \in LowHigh /\ call.args[1] > 2 * IIRDSP_MAX_SECTIONS
    \/ call.op = "butter_bandpass_init" /\ call.args[1] > IIRDSP_MAX_SECTIONS

\* The frequencies of the call, in whole Hz, are outside the valid range:
\* cutoff <= 0 or cutoff >= fs/2; f_low <= 0 or f_high <= f_low or
\* f_high >= fs/2.
BadFrequency ==
    IF call.op = "butter_bandpass_init"
    THEN \/ call.args[2] <= 0
         \/ call.args[3] <= call.args[2]
         \/ 2 * call.args[3] >= call.args[4]
    ELSE call.args[2] <= 0 \/ 2 * call.args[2] >= call.args[3]

C3_InvalidFrequency ==
    call.op \in Butterworth =>
        /\ ~BadOrder => (call.ret = -2 <=> BadFrequency)
        /\ call.args[Len(call.args)] <= 0 => call.ret # 0
        /\ BadFrequency => call.ret # 0

C3_Witness ==
    /\ call.op = "butter_highpass_init"
    /\ ~BadOrder
    /\ call.args[2] > 0
    /\ 2 * call.args[2] = call.args[3]
    /\ call.ret = -2

\* C4: when a design entry point returns a nonzero status the cascade is as
\* it was before the call: num_sections, every coefficient, every z1 and z2.
C4_FailureLeavesCascade ==
    (call.op \in DesignOps /\ call.ret # 0) => f = call.pre

C4_Witness ==
    /\ call.op \in DesignOps
    /\ call.ret # 0
    /\ call.pre.num_sections > 0
    /\ call.pre.sections[0].z1 # Zero
    /\ f = call.pre

\* C5: when a design entry point returns success every active section has
\* z1 = 0 and z2 = 0, also when the cascade held the state of earlier
\* processing.
C5_SuccessZeroesState ==
    (call.op \in DesignOps /\ call.ret = 0) =>
        \A i \in SectionIdx :
            i < f.num_sections => f.sections[i].z1 = Zero /\ f.sections[i].z2 = Zero

C5_Witness ==
    /\ call.op \in DesignOps
    /\ call.ret = 0
    /\ call.pre.num_sections > 0
    /\ \E i \in SectionIdx :
          /\ i < call.pre.num_sections
          /\ i < f.num_sections
          /\ call.pre.sections[i].z1 # Zero
          /\ call.pre.sections[i].z2 # Zero
          /\ f.sections[i].z1 = Zero

\* Q <= 0 or f0 <= 0 or fs <= 0 or f0 >= fs/2, for the whole-Hz arguments
\* <<f0, Q, fs>> of the call.
NotchRejects ==
    \/ call.args[2] <= 0
    \/ call.args[1] <= 0
    \/ call.args[3] <= 0
    \/ 2 * call.args[1] >= call.args[3]

\* C6: notch_filter_init returns a negative status exactly when Q <= 0 or
\* f0 <= 0 or fs <= 0 or f0 >= fs/2; otherwise it returns 0 and sets
\* num_sections to 1.
C6_NotchStatus ==
    call.op = "notch_filter_init" =>
        /\ call.ret # 0 <=> NotchRejects
        /\ call.ret # 0 => call.ret < 0
        /\ ~NotchRejects => (call.ret = 0 /\ f.num_sections = 1)

C6_Witness ==
    /\ call.op = "notch_filter_init"
    /\ call.args[2] > 0
    /\ call.args[1] > 0
    /\ 2 * call.args[1] = call.args[3]
    /\ call.ret < 0

\* The section s after the sample x and the sample it puts out, by the
\* recurrence y = b0*x + z1, z1' = b1*x - a1*y + z2, z2' = b2*x - a2*y.
ClaimSection(s, x) ==
    Only({[y |-> y,
           s |-> [b0 |-> s.b0, b1 |-> s.b1, b2 |-> s.b2, a1 |-> s.a1, a2 |-> s.a2,
                  z1 |-> Add(Sub(Mul(s.b1, x), Mul(s.a1, y)), s.z2),
                  z2 |-> Sub(Mul(s.b2, x), Mul(s.a2, y))]]
          : y \in {Add(Mul(s.b0, x), s.z1)}})

RECURSIVE ClaimCascade(_, _, _)
\* The cascade and the output when x enters the section i and goes through
\* the sections i..num_sections-1 in index order.
ClaimCascade(g, x, i) ==
    IF i >= g.num_sections THEN [f |-> g, y |-> x]
    ELSE Only({ClaimCascade([g EXCEPT !.sections[i] = r.s], r.y, i + 1)
               : r \in {ClaimSection(g.sections[i], x)}})

\* C7: iirdsp_process_sample feeds x through the active sections in index
\* order, each computing y = b0*x + z1, z1' = b1*x - a1*y + z2 with the old
\* z2, z2' = b2*x - a2*y; it returns the last y, and x when no section is
\* active.
C7_ProcessSample ==
    call.op = "iirdsp_process_sample" =>
        /\ call.y[0] = ClaimCascade(call.pre, call.x[0], 0).y
        /\ f = ClaimCascade(call.pre, call.x[0], 0).f
        /\ call.pre.num_sections = 0 => (call.y[0] = call.x[0] /\ f = call.pre)

C7_Witness ==
    /\ call.op = "iirdsp_process_sample"
    /\ call.pre.num_sections >= 2
    /\ call.pre.sections[0].z1 # Zero
    /\ call.pre.sections[0].z2 # Zero
    /\ call.pre.sections[1].z2 # Zero
    /\ call.y[0] # call.x[0]
    /\ f.sections[1].z1 # call.pre.sections[1].z1

RECURSIVE ClaimStateAfter(_, _, _)
\* The cascade g after iirdsp_process_sample on x[0], ..., x[n-1] in turn.
ClaimStateAfter(g, x, n) ==
    IF n <= 0 THEN g
    ELSE iirdsp_process_sample(ClaimStateAfter(g, x, n - 1), x[n - 1]).f

\* What the successive iirdsp_process_sample calls on x[0], x[1], ... return,
\* starting from the cascade g.
ClaimOutputs(g, x) ==
    Array([n \in DOMAIN x |-> iirdsp_process_sample(ClaimStateAfter(g, x, n), x[n]).y])

\* C8: iirdsp_process_buffer leaves in y[0..N-1] what N successive
\* iirdsp_process_sample calls on x[0], x[1], ... return from the cascade's
\* state at the call, and leaves the cascade in the state they leave; the
\* same when y is the buffer x.
C8_ProcessBuffer ==
    call.op = "iirdsp_process_buffer" =>
        /\ call.y = ClaimOutputs(call.pre, call.x)
        /\ f = ClaimStateAfter(call.pre, call.x, Length(call.x))

C8_Witness ==
    /\ call.op = "iirdsp_process_buffer"
    /\ call.alias
    /\ Length(call.x) = MaxLen
    /\ call.pre.num_sections >= 1
    /\ call.pre.sections[0].z1 # Zero
    /\ \A n \in DOMAIN call.x : call.y[n] # call.x[n]
    /\ call.y = ClaimOutputs(call.pre, call.x)

\* The array a in reverse order.
ClaimReverse(a) ==
    Array([n \in DOMAIN a |-> a[Length(a) - 1 - n]])

\* The cascade g with every z1 and z2 zero.
ClaimZeroState(g) ==
    [g EXCEPT !.sections = Array([i \in SectionIdx |->
                  [g.sections[i] EXCEPT !.z1 = Zero, !.z2 = Zero]])]

\* F(x): the output of process_buffer on x from the all-zero state of g.
ClaimF(g, x) == ClaimOutputs(ClaimZeroState(g), x)

\* C9: when malloc gives the scratch buffer, iirdsp_filtfilt leaves
\* y = reverse(F(reverse(F(x)))), F being process_buffer from the all-zero
\* state, whatever the state of the cascade before the call, and also when y
\* is the buffer x.
C9_Filtfilt ==
    (call.op = "iirdsp_filtfilt" /\ call.temp_ok) =>
        call.y = ClaimReverse(ClaimF(call.pre,
                                     ClaimReverse(ClaimF(call.pre, call.x))))

C9_Witness ==
    /\ call.op = "iirdsp_filtfilt"
    /\ call.temp_ok
    /\ call.alias
    /\ Length(call.x) = MaxLen
    /\ call.pre.num_sections >= 1
    /\ call.pre.sections[0].z1 # Zero
    /\ call.pre.sections[0].z2 # Zero
    /\ call.y # call.x
    /\ call.y # ClaimOutputs(call.pre, call.x)

\* C10: when malloc gives no scratch buffer, iirdsp_filtfilt leaves every
\* element of the output buffer as it was before the call.
C10_FiltfiltNoMemory ==
    (call.op = "iirdsp_filtfilt" /\ ~call.temp_ok) => call.y = call.y0

C10_Witness ==
    /\ call.op = "iirdsp_filtfilt"
    /\ ~call.temp_ok
    /\ ~call.alias
    /\ Length(call.x) = MaxLen
    /\ call.pre.num_sections >= 1
    /\ ClaimOutputs(call.pre, call.x) # call.y0
    /\ call.y = call.y0
    /\ f = call.pre

\* C11: iirdsp_filtfilt tells the caller whether the output was produced:
\* what a call returns when malloc gave no scratch buffer differs from what
\* the same call returns when malloc gave it.
C11_FiltfiltStatus ==
    (call.op = "iirdsp_filtfilt" /\ ~call.temp_ok) =>
        call.ret # iirdsp_filtfilt(call.pre, Memory(call.x, call.alias), "x",
                                   OutPtr(call.alias), Length(call.x), TRUE).ret

\* The coefficients of the section s.
ClaimCoefficients(s) == <<s.b0, s.b1, s.b2, s.a1, s.a2>>

ProcessingOps ==
    {"iirdsp_process_sample", "iirdsp_process_buffer", "iirdsp_filtfilt",
     "iirdsp_filter_reset", "iirdsp_filter_init"}

\* C13: iirdsp_process_sample, iirdsp_process_buffer, iirdsp_filtfilt and
\* iirdsp_filter_reset change no coefficient of any section, not the order of
\* the sections and not num_sections; they modify only z1 and z2.
C13_CoefficientsImmutable ==
    call.op \in ProcessingOps =>
        /\ f.num_sections = call.pre.num_sections
        /\ \A i \in SectionIdx :
              ClaimCoefficients(f.sections[i])
                 = ClaimCoefficients(call.pre.sections[i])

C13_Witness ==
    /\ call.op = "iirdsp_filtfilt"
    /\ call.temp_ok
    /\ Length(call.x) = MaxLen
    /\ call.pre.num_sections >= 2
    /\ ClaimCoefficients(call.pre.sections[0])
          # ClaimCoefficients(call.pre.sections[1])
    /\ f.sections[0].z1 # call.pre.sections[0].z1
    /\ f.sections[1].z2 # call.pre.sections[1].z2

\* C14: whatever calls are made on a cascade that starts empty,
\* 0 <= num_sections <= IIRDSP_MAX_SECTIONS.
C14_SectionCountInRange ==
    /\ 0 <= f.num_sections
    /\ f.num_sections <= IIRDSP_MAX_SECTIONS

\* A cascade of IIRDSP_MAX_SECTIONS sections has been run, and a design of
\* too high an order has been rejected on it.
C14_Witness ==
    /\ call.op \in Butterworth
    /\ BadOrder
    /\ call.args[1] > IIRDSP_MAX_SECTIONS
    /\ call.pre.num_sections = IIRDSP_MAX_SECTIONS
    /\ call.pre.sections[IIRDSP_MAX_SECTIONS - 1].z1 # Zero
    /\ f.num_sections = IIRDSP_MAX_SECTIONS

\* |a| and |a - b| <= 1/100 for samples and coefficients.
ClaimAbs(a) == IF Lt(a, Zero) THEN Neg(a) ELSE a

ClaimTolerance == Div(FromInt(1), FromInt(100))

ClaimNear(a, b) == Le(ClaimAbs(Sub(a, b)), ClaimTolerance)

\* Both roots of z^2 + a1 z + a2, the poles of the section s, lie inside the
\* unit circle: |a2| < 1 and |a1| < 1 + a2, each up to the tolerance, so
\* that a pole the rounding puts on the circle counts as inside.
ClaimStableSection(s) ==
    /\ Lt(ClaimAbs(s.a2), Add(FromInt(1), ClaimTolerance))
    /\ Lt(ClaimAbs(s.a1), Add(Add(FromInt(1), s.a2), ClaimTolerance))

\* C15: every successful Butterworth design yields a stable cascade: the
\* poles of every active section lie inside the unit circle.
C15_StableCascade ==
    (call.op \in Butterworth /\ call.ret = 0) =>
        \A i \in SectionIdx :
            i < f.num_sections => ClaimStableSection(f.sections[i])

\* The pole k of the array poles lies at the angle pi*(2k+N+1)/(2N) of the
\* unit circle, in the left half-plane (up to the tolerance).
ClaimPrototypePole(poles, N, k) ==
    /\ Lt(poles[2 * k], ClaimTolerance)
    /\ ClaimNear(Add(Mul(poles[2 * k], poles[2 * k]),
                     Mul(poles[2 * k + 1], poles[2 * k + 1])), FromInt(1))
    /\ ClaimNear(poles[2 * k], cos(PoleAngle(N, k)))
    /\ ClaimNear(poles[2 * k + 1], sin(PoleAngle(N, k)))

\* C16: for the order N >= 1 of an accepted design butter_analog_poles
\* returns N poles on the unit circle with strictly negative real part, at
\* the angles pi*(2k+N+1)/(2N), k = 0..N-1.
C16_PrototypePoles ==
    (call.op \in Butterworth /\ call.ret = 0) =>
        \A k \in 0..(call.args[1] - 1) :
            ClaimPrototypePole(butter_analog_poles(call.args[1]), call.args[1], k)

\* Complex numbers <<re, im>>: product, and squared modulus.
ClaimTimes(u, v) ==
    <<Sub(Mul(u[1], v[1]), Mul(u[2], v[2])), Add(Mul(u[1], v[2]), Mul(u[2], v[1]))>>

ClaimModSq(u) == Add(Mul(u[1], u[1]), Mul(u[2], u[2]))

\* c0 + c1 q + c2 q^2 for the complex q and real c0, c1, c2 (Horner).
ClaimPoly(c0, c1, c2, q) ==
    Only({<<Add(c0, t[1]), t[2]>>
          : t \in {ClaimTimes(q, <<Add(c1, Mul(c2, q[1])), Mul(c2, q[2])>>)}})

RECURSIVE ClaimGainSq(_, _, _)
\* |H(z)|^2 of the sections 0..n-1 of the cascade g, for q = 1/z:
\* the product of |b0 + b1 q + b2 q^2|^2 / |1 + a1 q + a2 q^2|^2.
ClaimGainSq(g, q, n) ==
    IF n <= 0 THEN FromInt(1)
    ELSE Mul(ClaimGainSq(g, q, n - 1),
             Div(ClaimModSq(ClaimPoly(g.sections[n - 1].b0, g.sections[n - 1].b1,
                                      g.sections[n - 1].b2, q)),
                 ClaimModSq(ClaimPoly(FromInt(1), g.sections[n - 1].a1,
                                      g.sections[n - 1].a2, q))))

\* 1/z on the unit circle at the frequency freq, as a fraction of fs.
ClaimUnit(freq) ==
    Only({<<cos(w), Neg(sin(w))>> : w \in {Mul(Mul(FromInt(2), M_PI), freq)}})

\* The reference frequency of the design of the call, as a fraction of fs:
\* DC, Nyquist, or the geometric centre sqrt(f_low * f_high).
ClaimPassband ==
    IF call.op = "butter_lowpass_init" THEN Zero
    ELSE IF call.op = "butter_highpass_init" THEN Div(FromInt(1), FromInt(2))
    ELSE Div(sqrt(Mul(FromInt(call.args[2]), FromInt(call.args[3]))),
             FromInt(call.args[4]))

\* C17: after a successful Butterworth design the magnitude of the cascade's
\* frequency response is 1 within the tolerance at DC (low-pass), at Nyquist
\* (high-pass), at the geometric centre frequency (band-pass).
C17_UnityGain ==
    (call.op \in Butterworth /\ call.ret = 0) =>
        ClaimNear(ClaimGainSq(f, ClaimUnit(ClaimPassband), f.num_sections),
                  FromInt(1))

\* The index of the middle sample of the buffer x.
ClaimCentre(x) == (Length(x) - 1) \div 2

\* x has an odd number of samples, and only the middle one is not zero.
ClaimCentred(x) ==
    /\ Length(x) % 2 = 1
    /\ \A n \in DOMAIN x : (x[n] # Zero) <=> (n = ClaimCentre(x))

\* a and b differ by no more than the tolerance, relative to scale.
ClaimClose(a, b, scale) ==
    Le(ClaimAbs(Sub(a, b)), Mul(ClaimTolerance, Add(FromInt(1), scale)))

\* y[c + k] and y[c - k] agree for every k.
ClaimSymmetric(y, c) ==
    \A k \in 1..c :
        ClaimClose(y[c - k], y[c + k], Add(ClaimAbs(y[c - k]), ClaimAbs(y[c + k])))

\* C18 as stated: iirdsp_filtfilt of an odd-length buffer whose only
\* non-zero sample is the middle one, index c, leaves y[c + k] = y[c - k]
\* for every k, up to the tolerance.
C18_Symmetric ==
    (call.op = "iirdsp_filtfilt" /\ call.temp_ok /\ ClaimCentred(call.x)) =>
        ClaimSymmetric(call.y, ClaimCentre(call.x))

RECURSIVE ClaimTail(_, _, _, _)
\* h[lo] h[lo + k] + ... + h[hi] h[hi + k]
ClaimTail(h, k, lo, hi) ==
    IF lo > hi THEN Zero
    ELSE Add(ClaimTail(h, k, lo, hi - 1), Mul(h[hi], h[hi + k]))

\* y[c - k] - y[c + k] = a (h[c - k + 1] h[c + 1] + ... + h[c] h[c + k]) for
\* every k.
ClaimTruncated(y, a, h, c) ==
    \A k \in 1..c :
        ClaimClose(Sub(y[c - k], y[c + k]), Mul(a, ClaimTail(h, k, c - k + 1, c)),
                   Add(ClaimAbs(y[c - k]), ClaimAbs(y[c + k])))

\* C18: iirdsp_filtfilt of an odd-length buffer whose only non-zero sample
\* is the middle one, index c and value a, leaves an output whose two halves
\* differ by the part of the forward pass that the end of the buffer cuts
\* off: y[c - k] - y[c + k] = a (h[c - k + 1] h[c + 1] + ... + h[c] h[c + k]),
\* up to the tolerance, h being the response of process_buffer from the
\* all-zero state to a buffer of the same length holding 1 and then zeros.
C18_TruncatedSymmetry ==
    (call.op = "iirdsp_filtfilt" /\ call.temp_ok /\ ClaimCentred(call.x)) =>
        ClaimTruncated(call.y, call.x[ClaimCentre(call.x)],
                       ClaimF(call.pre, Impulse(Length(call.x), 0, FromInt(1))),
                       ClaimCentre(call.x))

\* A cascade with sections has filtered a centred impulse of five samples
\* into an output whose ends differ.
C18_Witness ==
    /\ call.op = "iirdsp_filtfilt" /\ call.temp_ok /\ ClaimCentred(call.x)
    /\ call.pre.num_sections > 0
    /\ Length(call.x) = 5
    /\ ~ClaimSymmetric(call.y, ClaimCentre(call.x))

\* What the design call op with the arguments a returns on the cascade g.
ClaimDesign(op, a, g) ==
    CASE op = "butter_lowpass_init" ->
           butter_lowpass_init(g, a[1], FromInt(a[2]), FromInt(a[3]))
      [] op = "butter_highpass_init" ->
           butter_highpass_init(g, a[1], FromInt(a[2]), FromInt(a[3]))
      [] op = "butter_bandpass_init" ->
           butter_bandpass_init(g, a[1], FromInt(a[2]), FromInt(a[3]), FromInt(a[4]))
      [] op = "notch_filter_init" ->
           notch_filter_init(g, FromInt(a[1]), FromInt(a[2]), FromInt(a[3]))

\* The section count of g and its active sections, coefficients and state.
ClaimActive(g) ==
    [num_sections |-> g.num_sections,
     sections |-> [i \in 0..(g.num_sections - 1) |-> g.sections[i]]]

\* A cascade with other contents: every section active and holding junk
\* coefficients and non-zero state.
ClaimOtherCascade == [Filter(JunkSection) EXCEPT !.num_sections = IIRDSP_MAX_SECTIONS]

\* C19: a successful design call leaves the section count, and the
\* coefficients and the state of every active section, that the same call with
\* the same arguments leaves on another cascade, whatever coefficients, state
\* and section count the two cascades held before.
C19_DesignIndependent ==
    (call.op \in DesignOps /\ call.ret = 0) =>
        \A r \in {ClaimDesign(call.op, call.args, ClaimOtherCascade)} :
            r.ret = 0 /\ ClaimActive(r.f) = ClaimActive(f)

\* A design has succeeded on a cascade that held another section count,
\* other coefficients and non-zero state.
C19_Witness ==
    /\ call.op \in DesignOps /\ call.ret = 0
    /\ call.pre.num_sections > 0
    /\ call.pre.num_sections # f.num_sections
    /\ ClaimCoefficients(call.pre.sections[0]) # ClaimCoefficients(f.sections[0])
    /\ call.pre.sections[0].z1 # Zero
    /\ call.pre.sections[0].z2 # Zero

\* C20: iirdsp_process_buffer, and iirdsp_filtfilt when malloc gives the
\* scratch buffer, leave at least one non-zero output sample when the input
\* buffer holds a single non-zero sample, on every cascade a design call has
\* left (and on a fresh one, which has no sections).
C20_ImpulseResponse ==
    (/\ call.op \in {"iirdsp_process_buffer", "iirdsp_filtfilt"}
     /\ call.temp_ok
     /\ call.x \in Impulses) =>
        \E n \in DOMAIN call.y : call.y[n] \notin {Zero, NaN}

\* A designed cascade has filtered, forward and backward, the longest buffer
\* whose only non-zero sample is the one at index 0.
C20_Witness ==
    /\ call.op = "iirdsp_filtfilt" /\ call.temp_ok
    /\ call.pre.num_sections > 0
    /\ Length(call.x) = ImpulseLen
    /\ call.x \in Impulses
    /\ call.x[0] # Zero
    /\ \E n \in DOMAIN call.y : call.y[n] \notin {Zero, NaN}

\* wc / p for the complex p = p_re + j p_im, as <<re, im>>.
ClaimReciprocal(p_re, p_im, wc) ==
    <<Div(Mul(wc, p_re), Add(Mul(p_re, p_re), Mul(p_im, p_im))),
      Div(Neg(Mul(wc, p_im)), Add(Mul(p_re, p_re), Mul(p_im, p_im)))>>

\* The pole k of poles_s is wc / p for the pole k of poles_a.
ClaimHighpassPole(poles_s, poles_a, wc, k) ==
    /\ ClaimClose(poles_s[2 * k],
                  ClaimReciprocal(poles_a[2 * k], poles_a[2 * k + 1], wc)[1], wc)
    /\ ClaimClose(poles_s[2 * k + 1],
                  ClaimReciprocal(poles_a[2 * k], poles_a[2 * k + 1], wc)[2], wc)

\* C22: in an accepted butter_highpass_init the frequency transform leaves,
\* for every prototype pole p, the pole wc / p: real part wc Re(p) / |p|^2 and
\* imaginary part -wc Im(p) / |p|^2, wc being the warped cutoff.
C22_HighpassReciprocal ==
    (call.op = "butter_highpass_init" /\ call.ret = 0) =>
        \A k \in 0..(call.args[1] - 1) :
            ClaimHighpassPole(
                HighpassPoles(butter_analog_poles(call.args[1]), call.args[1],
                              Prewarp(FromInt(call.args[2]), FromInt(call.args[3]))),
                butter_analog_poles(call.args[1]),
                Prewarp(FromInt(call.args[2]), FromInt(call.args[3])), k)

\* The poles 2k and 2k+1 of poles_bp sum to p BW and multiply to w0^2, p being
\* the pole k of poles_lp.
ClaimBandpassPair(poles_bp, poles_lp, w0, bw, k) ==
    /\ ClaimClose(Add(poles_bp[4 * k], poles_bp[4 * k + 2]),
                  Mul(poles_lp[2 * k], bw), bw)
    /\ ClaimClose(Add(poles_bp[4 * k + 1], poles_bp[4 * k + 3]),
                  Mul(poles_lp[2 * k + 1], bw), bw)
    /\ ClaimClose(ClaimTimes(<<poles_bp[4 * k], poles_bp[4 * k + 1]>>,
                             <<poles_bp[4 * k + 2], poles_bp[4 * k + 3]>>)[1],
                  Mul(w0, w0), Mul(w0, w0))
    /\ ClaimClose(ClaimTimes(<<poles_bp[4 * k], poles_bp[4 * k + 1]>>,
                             <<poles_bp[4 * k + 2], poles_bp[4 * k + 3]>>)[2],
                  Zero, Mul(w0, w0))

\* The band-pass poles of the order N and the warped cutoffs wc1 and wc2 are
\* 2N poles, two for each prototype pole, that solve its quadratic.
ClaimBandpassPoles(N, wc1, wc2) ==
    /\ Length(BandpassPrototype(N, wc1, wc2)) = 2 * (2 * N)
    /\ \A k \in 0..(N - 1) :
          ClaimBandpassPair(BandpassPrototype(N, wc1, wc2), butter_analog_poles(N),
                            sqrt(Mul(wc1, wc2)), Sub(wc2, wc1), k)

\* C23: in an accepted butter_bandpass_init of order N the frequency
\* transform leaves 2N poles, and the two it leaves for the prototype pole p
\* are the roots of s^2 - p BW s + w0^2: they sum to p BW and multiply to
\* w0^2, with w0 = sqrt(wc1 wc2) and BW = wc2 - wc1.
C23_BandpassQuadratic ==
    (call.op = "butter_bandpass_init" /\ call.ret = 0) =>
        ClaimBandpassPoles(call.args[1],
                           Prewarp(FromInt(call.args[2]), FromInt(call.args[4])),
                           Prewarp(FromInt(call.args[3]), FromInt(call.args[4])))

\* The analog poles the design call op with the arguments a hands to
\* bilinear_zpk, and their number.
ClaimPolesS(op, a) ==
    CASE op = "butter_lowpass_init" ->
           LowpassPoles(butter_analog_poles(a[1]), a[1],
                        Prewarp(FromInt(a[2]), FromInt(a[3])))
      [] op = "butter_highpass_init" ->
           HighpassPoles(butter_analog_poles(a[1]), a[1],
                         Prewarp(FromInt(a[2]), FromInt(a[3])))
      [] op = "butter_bandpass_init" ->
           BandpassPrototype(a[1], Prewarp(FromInt(a[2]), FromInt(a[4])),
                             Prewarp(FromInt(a[3]), FromInt(a[4])))

ClaimNumPoles(op, a) == IF op = "butter_bandpass_init" THEN 2 * a[1] ELSE a[1]

\* fs_hz of the design call op with the arguments a.
ClaimFs(op, a) == FromInt(a[Len(a)])

\* The digital poles of the design call.
ClaimPolesZ(op, a) ==
    PolesZ(ClaimPolesS(op, a), ClaimNumPoles(op, a), Mul(FromInt(2), ClaimFs(op, a)))

\* p = <<p1_re, p1_im, p2_re, p2_im>> holds a pole and its conjugate, so that
\* -(p1 + p2) and p1 p2 are real.
ClaimConjugates(p) ==
    /\ ClaimNear(p[3], p[1])
    /\ ClaimNear(p[4], Neg(p[2]))
    /\ ClaimNear(Add(p[2], p[4]), Zero)
    /\ ClaimNear(Add(Mul(p[1], p[4]), Mul(p[2], p[3])), Zero)

\* The poles of every section are conjugates, and the pole left over by an
\* odd number of poles is real.
ClaimPairing(poles_z, num_poles) ==
    /\ \A i \in 0..(((num_poles + 1) \div 2) - 1) :
          ClaimConjugates(PolePair(poles_z, num_poles, i))
    /\ (num_poles % 2 = 1) =>
          ClaimNear(PolePair(poles_z, num_poles, num_poles \div 2)[2], Zero)

\* C24: in an accepted Butterworth design the two poles of every section are
\* complex conjugates of each other, the single pole an odd pole count
\* leaves for the last section is the real pole, and so -(p1 + p2) and p1 p2
\* have no imaginary part.
C24_ConjugatePairs ==
    (call.op \in Butterworth /\ call.ret = 0) =>
        ClaimPairing(ClaimPolesZ(call.op, call.args),
                     ClaimNumPoles(call.op, call.args))

\* The number of zeros at z = -1 of the numerator b0 z^2 + b1 z + b2 of the
\* section s: two for b0 (z+1)^2, one for b0 (z+1)(z-1).
ClaimZerosMinus(s) ==
    IF s.b1 = Mul(FromInt(2), s.b0) /\ s.b2 = s.b0 THEN 2
    ELSE IF s.b1 = Zero /\ s.b2 = Neg(s.b0) THEN 1
    ELSE 0

\* The number of its zeros at z = +1: two for b0 (z-1)^2, one for
\* b0 (z+1)(z-1).
ClaimZerosPlus(s) ==
    IF s.b1 = Mul(FromInt(-2), s.b0) /\ s.b2 = s.b0 THEN 2
    ELSE IF s.b1 = Zero /\ s.b2 = Neg(s.b0) THEN 1
    ELSE 0

RECURSIVE ClaimCountMinus(_, _)
\* The zeros at z = -1 of the sections 0..n-1 of g.
ClaimCountMinus(g, n) ==
    IF n <= 0 THEN 0
    ELSE ClaimCountMinus(g, n - 1) + ClaimZerosMinus(g.sections[n - 1])

RECURSIVE ClaimCountPlus(_, _)
\* The zeros at z = +1 of the sections 0..n-1 of g.
ClaimCountPlus(g, n) ==
    IF n <= 0 THEN 0
    ELSE ClaimCountPlus(g, n - 1) + ClaimZerosPlus(g.sections[n - 1])

\* C25: after a successful butter_lowpass_init every section's numerator is
\* b0 (z+1)^2, after a successful butter_highpass_init b0 (z-1)^2, with b0 = 1
\* in every section but section 0, which the gain normalisation scales; after
\* a successful butter_bandpass_init of order N the N sections hold N zeros at
\* z = -1 and N zeros at z = +1.
C25_ZerosByType ==
    /\ (call.op \in Butterworth /\ call.ret = 0) =>
          \A i \in 1..(f.num_sections - 1) : f.sections[i].b0 = FromInt(1)
    /\ (call.op = "butter_lowpass_init" /\ call.ret = 0) =>
          \A i \in 0..(f.num_sections - 1) : ClaimZerosMinus(f.sections[i]) = 2
    /\ (call.op = "butter_highpass_init" /\ call.ret = 0) =>
          \A i \in 0..(f.num_sections - 1) : ClaimZerosPlus(f.sections[i]) = 2
    /\ (call.op = "butter_bandpass_init" /\ call.ret = 0) =>
          /\ ClaimCountMinus(f, f.num_sections) = call.args[1]
          /\ ClaimCountPlus(f, f.num_sections) = call.args[1]

\* A band-pass design of odd order, three or more, has succeeded, with a
\* section that holds one zero of each kind and a section 0 that the
\* normalisation has scaled.
C25_Witness ==
    /\ call.op = "butter_bandpass_init" /\ call.ret = 0
    /\ call.args[1] >= 3
    /\ call.args[1] % 2 = 1
    /\ f.sections[0].b0 # FromInt(1)
    /\ ClaimZerosMinus(f.sections[0]) = 2
    /\ \E i \in 1..(f.num_sections - 1) :
          ClaimZerosMinus(f.sections[i]) = 1 /\ ClaimZerosPlus(f.sections[i]) = 1

\* filter_type of the design call op.
ClaimType(op) ==
    CASE op = "butter_lowpass_init" -> 0
      [] op = "butter_highpass_init" -> 1
      [] op = "butter_bandpass_init" -> 2

\* The cascade bilinear_zpk leaves, before the gain normalisation, in the
\* design call op with the arguments a on the cascade g.
ClaimZpk(op, a, g) ==
    bilinear_zpk(ClaimPolesS(op, a), ClaimNumPoles(op, a), ClaimFs(op, a),
                 ClaimType(op), g)

\* The reference frequency of the design call, as a fraction of fs_hz.
ClaimFreq(op, a) ==
    CASE op = "butter_lowpass_init" -> Zero
      [] op = "butter_highpass_init" -> Div(FromInt(1), FromInt(2))
      [] op = "butter_bandpass_init" ->
           Div(sqrt(Mul(FromInt(a[2]), FromInt(a[3]))), FromInt(a[4]))

\* The cascade g with b0, b1 and b2 of section 0 divided by gain when gain is
\* above the threshold, and g itself when it is not.
ClaimNormalized(g, gain) ==
    IF Gt(gain, GainThreshold)
    THEN [g EXCEPT !.sections = [@ EXCEPT ![0] =
             [@ EXCEPT !.b0 = Div(g.sections[0].b0, gain),
                       !.b1 = Div(g.sections[0].b1, gain),
                       !.b2 = Div(g.sections[0].b2, gain)]]]
    ELSE g

\* C26: a successful Butterworth design leaves the cascade of bilinear_zpk
\* with b0, b1 and b2 of section 0 divided by the magnitude of that cascade's
\* response at the reference frequency, and every a1 and a2, every other
\* section and all state as bilinear_zpk left them; when the magnitude is not
\* above 1e-10 it leaves that cascade as it is, and the call returns 0 all the
\* same.
C26_NormalizeFrame ==
    (call.op \in Butterworth /\ call.ret = 0) =>
        f = ClaimNormalized(ClaimZpk(call.op, call.args, call.pre),
                            compute_gain_at_freq(ClaimZpk(call.op, call.args, call.pre),
                                                 ClaimFreq(call.op, call.args)))

\* A design of two or more sections has succeeded with a gain above the
\* threshold, and section 0 holds another numerator than bilinear_zpk left.
C26_Witness ==
    /\ call.op \in Butterworth /\ call.ret = 0
    /\ f.num_sections >= 2
    /\ Gt(compute_gain_at_freq(ClaimZpk(call.op, call.args, call.pre),
                               ClaimFreq(call.op, call.args)), GainThreshold)
    /\ f.sections[0].b0 # ClaimZpk(call.op, call.args, call.pre).sections[0].b0
    /\ f.sections[0].b1 # ClaimZpk(call.op, call.args, call.pre).sections[0].b1

\* The access a is inside its array.
ClaimInside(a) == 0 <= a[2] /\ a[2] < ArraySize(a[1])

\* C27: an accepted Butterworth design keeps every index into poles_s,
\* poles_lp, poles_bp, poles_z, zeros_z and sections inside the declared size
\* of the array, and reads no element of them that the call has not written.
C27_MemorySafe ==
    (call.op \in Butterworth /\ call.ret = 0) =>
        /\ \A a \in DesignWrites(call.op, call.args[1]) : ClaimInside(a)
        /\ \A a \in DesignReads(call.op, call.args[1]) : ClaimInside(a)
        /\ DesignReads(call.op, call.args[1]) \subseteq DesignWrites(call.op, call.args[1])
        /\ f.num_sections <= ArraySize("sections")

\* A band-pass design of the highest order has succeeded: it has written the
\* last element of poles_lp, of poles_z and of sections.
C27_Witness ==
    /\ call.op = "butter_bandpass_init" /\ call.ret = 0
    /\ call.args[1] = IIRDSP_MAX_SECTIONS
    /\ f.num_sections = ArraySize("sections")
    /\ <<"poles_lp", ArraySize("poles_lp") - 1>> \in DesignWrites(call.op, call.args[1])
    /\ <<"poles_z", ArraySize("poles_z") - 1>> \in DesignReads(call.op, call.args[1])

\* C21: a call of iirdsp_process_sample or iirdsp_process_buffer on one
\* cascade, run by an interrupt between any two statements of a call (design,
\* reset, process, filtfilt) on another cascade, leaves the outputs and the
\* contents of both as the two calls leave them when run one after the other:
\* the handler's cascade is what the handler's last call made of it, and the
\* main line's call, once over, has made of its cascade and buffers what it
\* makes of them alone.
ClaimHandlerAlone ==
    CASE call.op = "iirdsp_process_sample" ->
           Only({[f |-> r.f, y |-> Array([n \in {0} |-> r.y])]
                 : r \in {iirdsp_process_sample(call.pre, call.x[0])}})
      [] call.op = "iirdsp_process_buffer" ->
           Only({[f |-> r.f, y |-> r.mem.y]
                 : r \in {iirdsp_process_buffer(call.pre, Memory(call.x, FALSE), "x", "y",
                                                Length(call.x))}})
      [] OTHER -> [f |-> call.pre, y |-> call.y]

ClaimMainAlone ==
    CASE main.op = "butter_lowpass_init" ->
           Only({[f |-> r.f, mem |-> main.mem0, ret |-> r.ret]
                 : r \in {butter_lowpass_init(main.pre, main.args[1],
                                              FromInt(main.args[2]),
                                              FromInt(main.args[3]))}})
      [] main.op = "notch_filter_init" ->
           Only({[f |-> r.f, mem |-> main.mem0, ret |-> r.ret]
                 : r \in {notch_filter_init(main.pre, FromInt(main.args[1]),
                                            FromInt(main.args[2]),
                                            FromInt(main.args[3]))}})
      [] main.op = "iirdsp_filter_reset" ->
           [f |-> iirdsp_filter_reset(main.pre), mem |-> main.mem0, ret |-> Void]
      [] main.op = "iirdsp_process_sample" ->
           Only({[f |-> r.f, mem |-> [main.mem0 EXCEPT !.y[0] = r.y], ret |-> Void]
                 : r \in {iirdsp_process_sample(main.pre, main.mem0.x[0])}})
      [] main.op = "iirdsp_process_buffer" ->
           Only({[f |-> r.f, mem |-> r.mem, ret |-> Void]
                 : r \in {iirdsp_process_buffer(main.pre, main.mem0, "x", "y", main.N)}})
      [] main.op = "iirdsp_filtfilt" ->
           Only({[f |-> r.f, mem |-> r.mem, ret |-> r.ret]
                 : r \in {iirdsp_filtfilt(main.pre, main.mem0, "x", "y", main.N,
                                          main.args[1])}})
      [] OTHER -> [f |-> f2, mem |-> main.mem, ret |-> main.ret]

ClaimMainOver == main.op # "none" /\ main.todo = <<>>

C21_NoInterference ==
    /\ \A r \in {ClaimHandlerAlone} : f = r.f /\ call.y = r.y
    /\ ClaimMainOver =>
          \A r \in {ClaimMainAlone} :
              f2 = r.f /\ main.mem = r.mem /\ main.ret = r.ret

\* A call of the main line that wrote its cascade is over, and the handler
\* ran between two of its statements.
C21_Witness ==
    /\ ClaimMainOver
    /\ main.preempted
    /\ f2 # main.pre
    /\ f # call.pre

====
